---- MODULE Spec2Model ----
(***************************************************************************)
(* A model of the documentation indexing server: the bulk-add-urls tool,   *)
(* the RagService over the vector index, the where-clause helpers and the  *)
(* search tools.                                                           *)
(*                                                                         *)
(* JavaScript strings are sequences of one-character strings, so that      *)
(* toLowerCase, split and join are computed character by character.        *)
(* JavaScript objects are records (functions over their keys).             *)
(***************************************************************************)
EXTENDS Integers, Sequences, FiniteSets, TLC

\* ------------------------------------------------------------------------
\* Bounds of the model
\* ------------------------------------------------------------------------

\* anchors on one seed page
MaxAnchors == 3

\* index writes attempted by service calls in one behaviour of SpecService
MaxDocs == 2

\* ------------------------------------------------------------------------
\* JavaScript values
\* ------------------------------------------------------------------------

\* the value undefined where a string is expected
UndefinedStr == <<"undefined">>

\* the value undefined where an object is expected
UndefinedObj == [undefined |-> TRUE]

IsUndefinedObj(o) == DOMAIN o = {"undefined"}

\* the value undefined where an array of strings is expected
UndefinedArr == << UndefinedStr >>

\* truthiness of an optional string: undefined and "" are falsy
Truthy(s) == s # UndefinedStr /\ s # <<>>

\* a || b on optional strings
OrElse(a, b) == IF Truthy(a) THEN a ELSE b

LowerChar(c) ==
  CASE c = "A" -> "a" [] c = "B" -> "b" [] c = "C" -> "c" [] c = "D" -> "d"
    [] c = "E" -> "e" [] c = "F" -> "f" [] c = "G" -> "g" [] c = "H" -> "h"
    [] c = "I" -> "i" [] c = "J" -> "j" [] c = "K" -> "k" [] c = "L" -> "l"
    [] c = "M" -> "m" [] c = "N" -> "n" [] c = "O" -> "o" [] c = "P" -> "p"
    [] c = "Q" -> "q" [] c = "R" -> "r" [] c = "S" -> "s" [] c = "T" -> "t"
    [] c = "U" -> "u" [] c = "V" -> "v" [] c = "W" -> "w" [] c = "X" -> "x"
    [] c = "Y" -> "y" [] c = "Z" -> "z" [] OTHER -> c

\* String.prototype.toLowerCase
RECURSIVE toLowerCase(_)
toLowerCase(s) ==
  IF s = <<>> THEN <<>> ELSE <<LowerChar(Head(s))>> \o toLowerCase(Tail(s))

IsSpace(c) == c \in {" ", "\n", "\t"}

\* String.prototype.split(/\s+/)
RECURSIVE SplitFrom(_, _, _, _)
SplitFrom(s, i, cur, inWs) ==
  IF i > Len(s) THEN <<cur>>
  ELSE IF IsSpace(s[i])
       THEN IF inWs THEN SplitFrom(s, i + 1, cur, TRUE)
            ELSE <<cur>> \o SplitFrom(s, i + 1, <<>>, TRUE)
       ELSE SplitFrom(s, i + 1, Append(cur, s[i]), FALSE)

SplitWhitespace(s) == SplitFrom(s, 1, <<>>, FALSE)

\* Array.prototype.join
RECURSIVE Join(_, _)
Join(parts, sep) ==
  IF parts = <<>> THEN <<>>
  ELSE IF Len(parts) = 1 THEN parts[1]
  ELSE parts[1] \o sep \o Join(Tail(parts), sep)

\* Array.prototype.filter((value, index, self) => self.indexOf(value) === index)
RECURSIVE RemoveDuplicates(_)
RemoveDuplicates(xs) ==
  IF xs = <<>> THEN <<>>
  ELSE LET init == SubSeq(xs, 1, Len(xs) - 1)
           last == xs[Len(xs)]
       IN IF \E j \in 1..Len(init) : init[j] = last
          THEN RemoveDuplicates(init)
          ELSE Append(RemoveDuplicates(init), last)

\* ------------------------------------------------------------------------
\* shared/constants
\* ------------------------------------------------------------------------

URL_DOCUMENT == "url-document"

LEGACY_DOCUMENT == "legacy-document"

\* ------------------------------------------------------------------------
\* shared/query-helpers
\* ------------------------------------------------------------------------

AndClause(conditions) == [k \in {"$and"} |-> conditions]

IsAndClause(w) == "$and" \in DOMAIN w

\* a condition that is neither undefined nor the empty object
IsPresentCondition(c) == ~IsUndefinedObj(c) /\ DOMAIN c # {}

\* buildWhereClause as it would be if the base condition were kept only when
\* nothing else is supplied
buildWhereClause_NoBase(baseCondition, additionalConditions) ==
  LET conditions == SelectSeq(additionalConditions, IsPresentCondition)
  IN IF Len(conditions) = 0 THEN baseCondition
     ELSE IF Len(conditions) = 1 THEN conditions[1]
     ELSE AndClause(conditions)

buildWhereClause(baseCondition, additionalConditions) ==
  LET conditions ==
        <<baseCondition>> \o SelectSeq(additionalConditions, IsPresentCondition)
  IN IF Len(conditions) = 1 THEN conditions[1] ELSE AndClause(conditions)

createDocTypeCondition(docType) == [docType |-> docType]

\* createLibraryCondition as it would be without toLowerCase()
createLibraryCondition_Raw(libraryName) ==
  IF Truthy(libraryName) THEN [libraryName |-> libraryName] ELSE UndefinedObj

createLibraryCondition(libraryName) ==
  IF Truthy(libraryName) THEN [libraryName |-> toLowerCase(libraryName)]
  ELSE UndefinedObj

createVersionCondition(version) ==
  IF Truthy(version) THEN [version |-> version] ELSE UndefinedObj

createCategoryCondition(category) ==
  IF Truthy(category) THEN [category |-> toLowerCase(category)]
  ELSE UndefinedObj

buildUrlDocumentWhere(options) ==
  buildWhereClause(
    createDocTypeCondition(URL_DOCUMENT),
    << createLibraryCondition(options.libraryName),
       createVersionCondition(options.version),
       createCategoryCondition(options.category) >>)

formatKeywordsForStorage(keywords) == Join(keywords, <<",", " ">>)

generateSearchableText(metadata) ==
  toLowerCase(metadata.libraryName \o <<" ">> \o metadata.version \o <<" ">>
              \o metadata.category \o <<" ">>
              \o Join(metadata.keywords, <<" ">>) \o <<" ">> \o metadata.title)

\* ------------------------------------------------------------------------
\* State
\* ------------------------------------------------------------------------

VARIABLES
  index,          \* the vector index collection: records [id, metadata, document]
  nextId,         \* ids handed out by uuidv4 so far
  lastCall,       \* the last service or tool call: its arguments, the index
                  \* requests it issued, what it returned or threw
  pc,             \* position of the bulk-add-urls handler
  params,         \* arguments of the bulk-add-urls call
  urlsToProcess,  \* candidates discovered on the seed page
  cursor,         \* position of the for loop in urlsToProcess
  scraped,        \* outcome of the current candidate's scrapeUrl call
  results,        \* results.successful and results.failed
  response,       \* the tool response of bulk-add-urls
  log,            \* the requests the handler has issued and what they were
                  \* answered, in order
  multi,          \* the scrapeMultipleUrls call in progress: its promises
  writers         \* the orchestrations that index URLs side by side

vars == << index, nextId, lastCall, pc, params, urlsToProcess, cursor,
           scraped, results, response, log, multi, writers >>

bulkVars == << pc, params, urlsToProcess, cursor, scraped, results, response, log >>

concurrentVars == << multi, writers >>

\* ------------------------------------------------------------------------
\* String literals of the program and of the inputs
\* ------------------------------------------------------------------------

NowIso == <<"n", "o", "w">>

SinTitulo == <<"S", "i", "n", " ", "t", "i", "t", "u", "l", "o">>

DocumentationPage ==
  <<" ", "d", "o", "c", "u", "m", "e", "n", "t", "a", "t", "i", "o", "n",
    " ", "p", "a", "g", "e">>

General == <<"g", "e", "n", "e", "r", "a", "l">>

ErrorDesconocido == [text |-> "Error desconocido"]

\* ------------------------------------------------------------------------
\* The vector index (gateway/chromadb): what the collection answers
\* ------------------------------------------------------------------------

\* a metadata record satisfies a single condition object: every key equal
ConditionHolds(c, md) == \A f \in DOMAIN c : f \in DOMAIN md /\ md[f] = c[f]

\* a metadata record satisfies a where clause; no clause selects everything
WhereHolds(where, md) ==
  IF IsUndefinedObj(where) THEN TRUE
  ELSE IF IsAndClause(where)
       THEN \A i \in 1..Len(where["$and"]) : ConditionHolds(where["$and"][i], md)
       ELSE ConditionHolds(where, md)

Min(a, b) == IF a < b THEN a ELSE b

\* collection.query: the matching records, at most nResults of them
queryItems(idx, where, nResults) ==
  LET hit == SelectSeq(idx, LAMBDA r : WhereHolds(where, r.metadata))
  IN SubSeq(hit, 1, Min(nResults, Len(hit)))

\* collection.get
getItems(idx, where) == SelectSeq(idx, LAMBDA r : WhereHolds(where, r.metadata))

\* collection.delete by where clause
deleteItems(idx, where) == SelectSeq(idx, LAMBDA r : ~WhereHolds(where, r.metadata))

\* collection.add as it would be if it replaced the records of the same URL
addItems_ReplaceSameUrl(idx, docId, metadata, document) ==
  Append(SelectSeq(idx, LAMBDA r : r.metadata.url # metadata.url),
         [id |-> docId, metadata |-> metadata, document |-> document])

\* collection.add of one record
addItems(idx, docId, metadata, document) ==
  Append(idx, [id |-> docId, metadata |-> metadata, document |-> document])

\* what a call to the index can do: answer, or reject with an error
\* an Error object: its message is a record of the message text and of the
\* values interpolated into it
Error(text) == [isError |-> TRUE, message |-> [text |-> text]]

ChromaError == Error("ChromaDB connection failed")

IndexOutcomes == { [ok |-> TRUE], [ok |-> FALSE, error |-> ChromaError] }

\* a rejection whose reason is not an Error object
RejectedValue == [isError |-> FALSE, message |-> [text |-> "rejected"]]

\* the outcome of a call: the value returned or the error thrown
Returned(v) == [threw |-> FALSE, value |-> v]

Threw(e) == [threw |-> TRUE, error |-> e]

\* ------------------------------------------------------------------------
\* URLs
\* ------------------------------------------------------------------------

\* A URL string is a record of its parts: the scheme ("" when the string does
\* not parse as a URL), the host, the path as the segments between the
\* slashes (a last empty segment is a trailing slash) and whether the string
\* holds a '#'.
Url(host, path) == [scheme |-> "https", host |-> host, path |-> path, hash |-> FALSE]

\* new URL(url) succeeds
Parses(url) == url.scheme # ""

\* s begins with prefix
StartsWith(s, prefix) ==
  Len(s) >= Len(prefix) /\ SubSeq(s, 1, Len(prefix)) = prefix

\* s ends with suffix
EndsWith(s, suffix) ==
  Len(s) >= Len(suffix) /\ SubSeq(s, Len(s) - Len(suffix) + 1, Len(s)) = suffix

Seg_docs == <<"d", "o", "c", "s">>

Seg_doc == <<"d", "o", "c">>

Seg_api == <<"a", "p", "i">>

Seg_changelog == <<"c", "h", "a", "n", "g", "e", "l", "o", "g">>

Seg_blog == <<"b", "l", "o", "g">>

\* the extensions of /\.(pdf|zip|tar\.gz|exe|dmg)$/i
BinaryExtensions ==
  { <<".", "p", "d", "f">>, <<".", "z", "i", "p">>,
    <<".", "t", "a", "r", ".", "g", "z">>, <<".", "e", "x", "e">>,
    <<".", "d", "m", "g">> }

\* RegExp.test on the URL string, for the patterns the scraper uses
TestPattern(pattern, url) ==
  CASE pattern = "/\\/docs?\\//i" ->
         \E i \in 1..(Len(url.path) - 1) :
           toLowerCase(url.path[i]) \in {Seg_docs, Seg_doc}
    [] pattern = "/\\.(pdf|zip|tar\\.gz|exe|dmg)$/i" ->
         /\ ~url.hash
         /\ url.path # <<>>
         /\ \E ext \in BinaryExtensions :
              EndsWith(toLowerCase(url.path[Len(url.path)]), ext)
    [] pattern = "/#/" -> url.hash
    [] pattern = "/\\/api\\//i" ->
         \E i \in 1..(Len(url.path) - 1) : toLowerCase(url.path[i]) = Seg_api
    [] pattern = "/\\/changelog/i" ->
         \E i \in 1..Len(url.path) : StartsWith(toLowerCase(url.path[i]), Seg_changelog)
    [] pattern = "/\\/blog/i" ->
         \E i \in 1..Len(url.path) : StartsWith(toLowerCase(url.path[i]), Seg_blog)
    [] pattern = "/\\/guide\\//i" ->
         \E i \in 1..(Len(url.path) - 1) :
           toLowerCase(url.path[i]) = <<"g", "u", "i", "d", "e">>
    [] pattern = "/\\/(documentation|help)\\//" ->
         \E i \in 1..(Len(url.path) - 1) :
           url.path[i] \in { <<"d", "o", "c", "u", "m", "e", "n", "t", "a", "t", "i", "o", "n">>, <<"h", "e", "l", "p">> }

\* ------------------------------------------------------------------------
\* services/scraper.service: discovery of the links of a page
\* ------------------------------------------------------------------------

\* An anchor of a page: its href attribute, its text, its title and
\* data-description attributes (UndefinedStr when it has none) and the
\* container element it stands in. An href is a record: kind "absolute" with
\* the URL it spells, kind "path" with the root-relative path it spells, kind
\* "invalid" for a string new URL rejects, kind "empty" for href="", kind
\* "none" for no href attribute.

\* new URL(href, baseUrl) succeeds
Resolves(href) == href.kind \in {"absolute", "path"}

\* new URL(href, baseUrl).toString()
Resolve(href, baseUrl) ==
  IF href.kind = "absolute" THEN href.url
  ELSE [baseUrl EXCEPT !.path = href.path, !.hash = href.hash]

\* the href attribute contains "/docs"
HrefContainsDocs(href) ==
  LET path == IF href.kind = "absolute" THEN href.url.path ELSE href.path
  IN Resolves(href) /\ \E i \in 1..Len(path) : StartsWith(path[i], Seg_docs)

\* the anchor matches the selector
SelectorMatches(selector, a) ==
  /\ a.href.kind # "none"
  /\ CASE selector = "a[href]" -> TRUE
       [] selector = "a[href*=\"/docs\"]" -> HrefContainsDocs(a.href)
       [] selector = "nav a[href]" -> a.container = "nav"
       [] selector = ".sidebar a[href]" -> a.container = "sidebar"
       [] selector = ".toc a[href]" -> a.container = "toc"
       [] selector = ".menu a[href]" -> a.container = "menu"
       [] selector = "main a[href]" -> a.container = "main"

\* the elements the loops of parseUrls visit: selector by selector, each in
\* document order
RECURSIVE Visited(_, _)
Visited(html, selectors) ==
  IF selectors = <<>> THEN <<>>
  ELSE SelectSeq(html, LAMBDA a : SelectorMatches(selectors[1], a))
         \o Visited(html, Tail(selectors))

\* String.prototype.trim
RECURSIVE Trim(_)
Trim(s) ==
  IF s = <<>> THEN s
  ELSE IF IsSpace(Head(s)) THEN Trim(Tail(s))
  ELSE IF IsSpace(s[Len(s)]) THEN Trim(SubSeq(s, 1, Len(s) - 1))
  ELSE s

MaxDescriptionLength == 200

\* data-description of the anchor, else of the closest ancestor that has one,
\* else the text of the next p, .description or .summary sibling
AnchorDescription(a) ==
  LET nextText == Trim(a.nextText)
  IN OrElse(OrElse(a.dataDescription, a.closestDescription),
            SubSeq(nextText, 1, Min(MaxDescriptionLength, Len(nextText))))

\* the body of the each loop as it would be without the duplicate test
VisitAnchor_NoDuplicateTest(extractedUrls, a, baseUrl, options) ==
  IF a.href.kind = "empty" THEN extractedUrls
  ELSE IF ~Resolves(a.href) THEN extractedUrls
  ELSE LET absoluteUrl == Resolve(a.href, baseUrl)
       IN IF ~options.includeExternal /\ absoluteUrl.host # baseUrl.host
          THEN extractedUrls
          ELSE IF options.filterPattern # "undefined"
                  /\ ~TestPattern(options.filterPattern, absoluteUrl)
          THEN extractedUrls
          ELSE Append(extractedUrls,
                      [ url |-> absoluteUrl,
                        text |-> Trim(a.text),
                        title |-> OrElse(a.title, UndefinedStr),
                        description |-> OrElse(AnchorDescription(a), UndefinedStr) ])

\* the body of the each loop as it would be without the hostname test
VisitAnchor_NoHostTest(extractedUrls, a, baseUrl, options) ==
  IF a.href.kind = "empty" THEN extractedUrls
  ELSE IF ~Resolves(a.href) THEN extractedUrls
  ELSE LET absoluteUrl == Resolve(a.href, baseUrl)
       IN IF options.filterPattern # "undefined"
             /\ ~TestPattern(options.filterPattern, absoluteUrl)
          THEN extractedUrls
          ELSE IF \E i \in 1..Len(extractedUrls) : extractedUrls[i].url = absoluteUrl
          THEN extractedUrls
          ELSE Append(extractedUrls,
                      [ url |-> absoluteUrl,
                        text |-> Trim(a.text),
                        title |-> OrElse(a.title, UndefinedStr),
                        description |-> OrElse(AnchorDescription(a), UndefinedStr) ])

\* one pass of the body of the each loop of parseUrls
VisitAnchor(extractedUrls, a, baseUrl, options) ==
  IF a.href.kind = "empty" THEN extractedUrls
  ELSE IF ~Resolves(a.href) THEN extractedUrls
  ELSE LET absoluteUrl == Resolve(a.href, baseUrl)
       IN IF ~options.includeExternal /\ absoluteUrl.host # baseUrl.host
          THEN extractedUrls
          ELSE IF options.filterPattern # "undefined"
                  /\ ~TestPattern(options.filterPattern, absoluteUrl)
          THEN extractedUrls
          ELSE IF \E i \in 1..Len(extractedUrls) : extractedUrls[i].url = absoluteUrl
          THEN extractedUrls
          ELSE Append(extractedUrls,
                      [ url |-> absoluteUrl,
                        text |-> Trim(a.text),
                        title |-> OrElse(a.title, UndefinedStr),
                        description |-> OrElse(AnchorDescription(a), UndefinedStr) ])

RECURSIVE VisitAll(_, _, _, _)
VisitAll(extractedUrls, elements, baseUrl, options) ==
  IF elements = <<>> THEN extractedUrls
  ELSE VisitAll(VisitAnchor(extractedUrls, elements[1], baseUrl, options),
                Tail(elements), baseUrl, options)

DefaultUrlSelectors == << "a[href]" >>

\* ScraperService.parseUrls; maxUrls 0 stands for an omitted (or zero) maxUrls,
\* urlSelectors <<>> for omitted urlSelectors
parseUrls(html, baseUrl, options) ==
  LET selectors == IF options.urlSelectors = <<>> THEN DefaultUrlSelectors
                   ELSE options.urlSelectors
      extractedUrls == VisitAll(<<>>, Visited(html, selectors), baseUrl, options)
      finalUrls == IF options.maxUrls # 0
                   THEN SubSeq(extractedUrls, 1, Min(options.maxUrls, Len(extractedUrls)))
                   ELSE extractedUrls
  IN [ baseUrl |-> baseUrl, extractedUrls |-> finalUrls,
       totalFound |-> Len(extractedUrls), scrapedAt |-> NowIso ]

\* an Error whose message interpolates a URL and, when wrapping, a cause
ErrorAbout(text, url, cause) ==
  [isError |-> TRUE, message |-> [text |-> text, url |-> url, cause |-> cause]]

NoCause == [text |-> ""]

\* validateAndNormalizeUrl as it would be without the protocol test
validateAndNormalizeUrl_AnyScheme(url) ==
  IF Parses(url) THEN Returned(url)
  ELSE Threw(ErrorAbout("Invalid URL: ", url, NoCause))

\* ScraperService.validateAndNormalizeUrl
validateAndNormalizeUrl(url) ==
  IF Parses(url) /\ url.scheme \in {"http", "https"}
  THEN Returned(url)
  ELSE Threw(ErrorAbout("Invalid URL: ", url, NoCause))

\* what axios.get can do: answer with a page, or fail
FetchError == Error("timeout of 10000ms exceeded")

NoExtractOptions ==
  [filterPattern |-> "undefined", includeExternal |-> FALSE, maxUrls |-> 0,
   urlSelectors |-> <<>>]

\* ScraperService.extractUrls; fetch is the outcome of fetchContent
extractUrls(url, options, fetch) ==
  LET valid == validateAndNormalizeUrl(url)
      wrap(e) == Threw(ErrorAbout("Failed to extract URLs from ", url, e.message))
  IN IF valid.threw
     THEN [requests |-> <<>>, ret |-> wrap(valid.error)]
     ELSE IF ~fetch.ok
     THEN [requests |-> <<valid.value>>, ret |-> wrap(fetch.error)]
     ELSE [requests |-> <<valid.value>>,
           ret |-> Returned(parseUrls(fetch.html, valid.value, options))]

DefaultDocPathPattern == "/\\/docs?\\//i"

DefaultExcludePatterns ==
  << "/\\.(pdf|zip|tar\\.gz|exe|dmg)$/i", "/#/", "/\\/api\\//i",
     "/\\/changelog/i", "/\\/blog/i" >>

DefaultMaxUrls == 500

DocUrlSelectors ==
  << "a[href*=\"/docs\"]", "nav a[href]", ".sidebar a[href]", ".toc a[href]",
     ".menu a[href]", "main a[href]" >>

\* { docPathPattern, excludePatterns, maxUrls, ...options }
DocOptions(options) ==
  [ docPathPattern |-> IF "docPathPattern" \in DOMAIN options
                       THEN options.docPathPattern ELSE DefaultDocPathPattern,
    excludePatterns |-> IF "excludePatterns" \in DOMAIN options
                        THEN options.excludePatterns ELSE DefaultExcludePatterns,
    maxUrls |-> IF "maxUrls" \in DOMAIN options
                THEN options.maxUrls ELSE DefaultMaxUrls ]

\* extractDocumentationUrls as it would be without the second filtering pass
extractDocumentationUrls_NoExclusion(url, options, fetch) ==
  LET defaultOptions == DocOptions(options)
      extractionOptions ==
        [ filterPattern |-> defaultOptions.docPathPattern,
          includeExternal |-> FALSE,
          maxUrls |-> defaultOptions.maxUrls,
          urlSelectors |-> DocUrlSelectors ]
  IN extractUrls(url, extractionOptions, fetch)

\* ScraperService.extractDocumentationUrls; options holds the keys the caller gave
extractDocumentationUrls(url, options, fetch) ==
  LET defaultOptions == DocOptions(options)
      extractionOptions ==
        [ filterPattern |-> defaultOptions.docPathPattern,
          includeExternal |-> FALSE,
          maxUrls |-> defaultOptions.maxUrls,
          urlSelectors |-> DocUrlSelectors ]
      r == extractUrls(url, extractionOptions, fetch)
      shouldExclude(extracted) ==
        \E i \in 1..Len(defaultOptions.excludePatterns) :
          TestPattern(defaultOptions.excludePatterns[i], extracted.url)
      filteredUrls ==
        SelectSeq(r.ret.value.extractedUrls, LAMBDA e : ~shouldExclude(e))
  IN IF r.ret.threw THEN r
     ELSE [ requests |-> r.requests,
            ret |-> Returned([ r.ret.value EXCEPT
                                 !.extractedUrls = filteredUrls,
                                 !.totalFound = Len(filteredUrls) ]) ]

\* ------------------------------------------------------------------------
\* services/scraper.service: the content of a page
\* ------------------------------------------------------------------------

\* the length of the run of whitespace that starts at position i of s
RECURSIVE SpacesFrom(_, _)
SpacesFrom(s, i) ==
  IF i > Len(s) THEN 0
  ELSE IF IsSpace(s[i]) THEN 1 + SpacesFrom(s, i + 1)
  ELSE 0

\* the length of the run of the character c that starts at position i of s
RECURSIVE RunOf(_, _, _)
RunOf(s, i, c) ==
  IF i > Len(s) THEN 0
  ELSE IF s[i] = c THEN 1 + RunOf(s, i + 1, c)
  ELSE 0

\* the number of characters from position i of s to the end of its line
RECURSIVE RestOfLine(_, _)
RestOfLine(s, i) ==
  IF i > Len(s) THEN 0
  ELSE IF s[i] = "\n" THEN 0
  ELSE 1 + RestOfLine(s, i + 1)

\* the text t stands at position i of s, in any letter case
LiteralAt(s, i, t) ==
  /\ i + Len(t) - 1 <= Len(s)
  /\ \A k \in 1..Len(t) : LowerChar(s[i + k - 1]) = LowerChar(t[k])

\* The regular expressions of cleanText are records: kind "ws" for /\s+/,
\* "literal" for a phrase, "gap" for two phrases with \s* between them,
\* "toEnd" for the same followed by .*$, "optional" for a phrase and an
\* optional character, "run" for a character repeated min times or more.
\* All are matched with the flags g and i. MatchLen is the length of the
\* match that starts at position i of s, 0 when there is none.
MatchLen(p, s, i) ==
  CASE p.kind = "ws" -> SpacesFrom(s, i)
    [] p.kind = "literal" -> IF LiteralAt(s, i, p.text) THEN Len(p.text) ELSE 0
    [] p.kind \in {"gap", "toEnd"} ->
         IF ~LiteralAt(s, i, p.left) THEN 0
         ELSE LET j == i + Len(p.left) + SpacesFrom(s, i + Len(p.left))
              IN IF ~LiteralAt(s, j, p.right) THEN 0
                 ELSE IF p.kind = "gap" THEN j + Len(p.right) - i
                 ELSE j + Len(p.right) + RestOfLine(s, j + Len(p.right)) - i
    [] p.kind = "optional" ->
         IF ~LiteralAt(s, i, p.text) THEN 0
         ELSE IF i + Len(p.text) <= Len(s) /\ s[i + Len(p.text)] = p.opt
              THEN Len(p.text) + 1
              ELSE Len(p.text)
    [] p.kind = "run" -> IF RunOf(s, i, p.char) >= p.min THEN RunOf(s, i, p.char) ELSE 0

\* the text of s from position i on, with every match that starts at a
\* position of starts, taken from left to right, replaced
RECURSIVE ReplaceFrom(_, _, _, _, _)
ReplaceFrom(s, p, replacement, starts, i) ==
  LET ahead == {j \in starts : j >= i}
  IN IF ahead = {} THEN SubSeq(s, i, Len(s))
     ELSE LET j == CHOOSE m \in ahead : \A k \in ahead : m <= k
          IN SubSeq(s, i, j - 1) \o replacement
               \o ReplaceFrom(s, p, replacement, starts, j + MatchLen(p, s, j))

\* String.prototype.replace with a global regular expression: the matches are
\* taken from left to right and do not overlap
Replace(s, p, replacement) ==
  ReplaceFrom(s, p, replacement, {j \in 1..Len(s) : MatchLen(p, s, j) > 0}, 1)

Phrase(t) == [kind |-> "literal", text |-> t]

\* the replace calls of cleanText, in order
CleanSteps ==
  << [pattern |-> [kind |-> "ws"], replacement |-> <<" ">>],
     [pattern |-> [kind |-> "gap", left |-> <<"N", "e", "x", "t">>, right |-> <<"→">>],
      replacement |-> <<>>],
     [pattern |-> [kind |-> "gap", left |-> <<"←">>, right |-> <<"P", "r", "e", "v", "i", "o", "u", "s">>],
      replacement |-> <<>>],
     [pattern |-> Phrase(<<"E", "d", "i", "t", " ", "t", "h", "i", "s", " ", "p", "a", "g", "e", " ", "o", "n", " ", "G", "i", "t", "H", "u", "b">>), replacement |-> <<>>],
     [pattern |-> Phrase(<<"S", "h", "a", "r", "e", " ", "o", "n", " ", "T", "w", "i", "t", "t", "e", "r">>), replacement |-> <<>>],
     [pattern |-> Phrase(<<"S", "h", "a", "r", "e", " ", "o", "n", " ", "F", "a", "c", "e", "b", "o", "o", "k">>), replacement |-> <<>>],
     [pattern |-> Phrase(<<"C", "o", "p", "y", " ", "l", "i", "n", "k">>), replacement |-> <<>>],
     [pattern |-> [kind |-> "toEnd", left |-> <<"C", "o", "p", "y", "r", "i", "g", "h", "t">>, right |-> <<"©">>],
      replacement |-> <<>>],
     [pattern |-> [kind |-> "optional", text |-> <<"A", "l", "l", " ", "r", "i", "g", "h", "t", "s", " ", "r", "e", "s", "e", "r", "v", "e", "d">>, opt |-> "."],
      replacement |-> <<>>],
     [pattern |-> Phrase(<<"T", "e", "r", "m", "s", " ", "o", "f", " ", "S", "e", "r", "v", "i", "c", "e">>), replacement |-> <<>>],
     [pattern |-> Phrase(<<"P", "r", "i", "v", "a", "c", "y", " ", "P", "o", "l", "i", "c", "y">>), replacement |-> <<>>],
     [pattern |-> [kind |-> "run", char |-> ".", min |-> 3],
      replacement |-> <<".", ".", ".">>],
     [pattern |-> [kind |-> "run", char |-> "?", min |-> 2], replacement |-> <<"?">>],
     [pattern |-> [kind |-> "run", char |-> "!", min |-> 2], replacement |-> <<"!">>] >>

RECURSIVE ApplySteps(_, _)
ApplySteps(s, steps) ==
  IF steps = <<>> THEN s
  ELSE LET replaced == Replace(s, steps[1].pattern, steps[1].replacement)
       IN IF Len(replaced) = 0 THEN <<>> ELSE ApplySteps(replaced, Tail(steps))

\* ScraperService.cleanText
cleanText(text) == Trim(ApplySteps(text, CleanSteps))

\* A page read for its content is the sequence of its elements in document
\* order, each a record of the selector it answers to ("title", "h1", "main",
\* ".content", "nav", "img", ...), of its text and of the element it stands
\* inside ("none" when it stands in the page itself).

TitleSelectors == << "title", "h1", ".title", ".post-title" >>

ContentSelectors ==
  << "main", "article", ".content", ".post-content", ".entry-content", "body" >>

IgnoreSelectors ==
  { "nav", "header", "footer", "aside", ".sidebar", ".menu", ".navigation",
    ".breadcrumb", ".comments", ".social-share", "script", "style", ".ad",
    ".advertisement", ".popup" }

Untitled == <<"U", "n", "t", "i", "t", "l", "e", "d">>

\* parseContent as it would be without the removal of the ignored elements
RemoveIgnored_Nothing(html) == html

\* the page once the ignored elements are removed, with all they hold
RemoveIgnored(html) ==
  SelectSeq(html, LAMBDA e : e.selector \notin IgnoreSelectors
                               /\ e.inside \notin IgnoreSelectors)

RECURSIVE ConcatTexts(_)
ConcatTexts(elements) ==
  IF elements = <<>> THEN <<>>
  ELSE elements[1].text \o ConcatTexts(Tail(elements))

\* $(selector): the elements the selector matches; body is the whole of the
\* page but its head
Select(doc, selector) ==
  IF selector = "body"
  THEN << [ selector |-> "body",
            text |-> ConcatTexts(SelectSeq(doc, LAMBDA e : e.selector # "title")) ] >>
  ELSE SelectSeq(doc, LAMBDA e : e.selector = selector)

\* the loop of extractTitle over the selectors left to try
RECURSIVE TitleFrom(_, _)
TitleFrom(doc, selectors) ==
  IF selectors = <<>> THEN Untitled
  ELSE LET element == Select(doc, selectors[1])
       IN IF Len(element) > 0 /\ Trim(element[1].text) # <<>>
          THEN cleanText(Trim(element[1].text))
          ELSE TitleFrom(doc, Tail(selectors))

\* ScraperService.extractTitle
extractTitle(doc) == TitleFrom(doc, TitleSelectors)

MinContentLength == 100

\* the loop of extractMainContent as it would be without the test of length
RECURSIVE ContentFrom_NoMinimum(_, _)
ContentFrom_NoMinimum(doc, selectors) ==
  IF selectors = <<>> THEN cleanText(Select(doc, "body")[1].text)
  ELSE LET element == Select(doc, selectors[1])
       IN IF Len(element) > 0 /\ Len(element[1].text) > 0
          THEN cleanText(element[1].text)
          ELSE ContentFrom_NoMinimum(doc, Tail(selectors))

\* the loop of extractMainContent over the selectors left to try
RECURSIVE ContentFrom(_, _)
ContentFrom(doc, selectors) ==
  IF selectors = <<>> THEN cleanText(Select(doc, "body")[1].text)
  ELSE LET element == Select(doc, selectors[1])
       IN IF Len(element) > 0 /\ Len(Trim(element[1].text)) > MinContentLength
          THEN cleanText(element[1].text)
          ELSE ContentFrom(doc, Tail(selectors))

\* ScraperService.extractMainContent
extractMainContent(doc) == ContentFrom(doc, ContentSelectors)

\* ScraperService.parseContent
parseContent(html, url) ==
  LET doc == RemoveIgnored(html)
      content == extractMainContent(doc)
  IN [ url |-> url,
       title |-> extractTitle(doc),
       content |-> content,
       metadata |-> [ scrapedAt |-> NowIso,
                      contentLength |-> Len(content),
                      hasImages |-> Len(Select(doc, "img")) > 0,
                      hasLinks |-> Len(Select(doc, "a")) > 0 ] ]

\* ScraperService.scrapeUrl; fetch is the outcome of fetchContent
scrapeUrl(url, fetch) ==
  LET valid == validateAndNormalizeUrl(url)
      wrap(e) == Threw(ErrorAbout("Failed to scrape URL ", url, e.message))
  IN IF valid.threw
     THEN [requests |-> <<>>, ret |-> wrap(valid.error)]
     ELSE IF ~fetch.ok
     THEN [requests |-> <<valid.value>>, ret |-> wrap(fetch.error)]
     ELSE [requests |-> <<valid.value>>,
           ret |-> Returned(parseContent(fetch.html, valid.value))]

\* s holds sub
Includes(s, sub) ==
  \E i \in 1..(Len(s) - Len(sub) + 1) : SubSeq(s, i, i + Len(sub) - 1) = sub

TextHtml == <<"t", "e", "x", "t", "/", "h", "t", "m", "l">>

\* isScrapeable as it would be without its try/catch
isScrapeable_NoCatch(url, head) ==
  LET valid == validateAndNormalizeUrl(url)
  IN IF valid.threw THEN [requests |-> <<>>, ret |-> Threw(valid.error)]
     ELSE IF ~head.ok THEN [requests |-> <<valid.value>>, ret |-> Threw(head.error)]
     ELSE [requests |-> <<valid.value>>,
           ret |-> Returned(Includes(OrElse(head.contentType, <<>>), TextHtml))]

\* ScraperService.isScrapeable; head is the outcome of axios.head, with the
\* content-type header of the response (UndefinedStr when it has none)
isScrapeable(url, head) ==
  LET valid == validateAndNormalizeUrl(url)
  IN IF valid.threw THEN [requests |-> <<>>, ret |-> Returned(FALSE)]
     ELSE IF ~head.ok THEN [requests |-> <<valid.value>>, ret |-> Returned(FALSE)]
     ELSE [requests |-> <<valid.value>>,
           ret |-> Returned(Includes(OrElse(head.contentType, <<>>), TextHtml))]

\* a fetch that was never issued
NoFetch == [ok |-> FALSE, error |-> Error("no request")]

\* the promises of urls.map(url => this.scrapeUrl(url)) once the map has run:
\* the call on a URL that is not valid has rejected before any request, the
\* others have issued their request and wait for its answer
StartedScrapes(urls) ==
  [ i \in 1..Len(urls) |->
      IF validateAndNormalizeUrl(urls[i]).threw
      THEN [status |-> "rejected", reason |-> scrapeUrl(urls[i], NoFetch).ret.error]
      ELSE [status |-> "pending"] ]

\* the requests the map has issued, in order
StartedRequests(urls) ==
  SelectSeq(urls, LAMBDA url : ~validateAndNormalizeUrl(url).threw)

\* the promise of scrapeUrl(url) once its request is answered by fetch
SettledScrape(url, fetch) ==
  LET r == scrapeUrl(url, fetch).ret
  IN IF r.threw THEN [status |-> "rejected", reason |-> r.error]
     ELSE [status |-> "fulfilled", value |-> r.value]

\* scrapeMultipleUrls as it would be with Promise.all for Promise.allSettled
CollectResults_All(settled) ==
  LET rejected == SelectSeq(settled, LAMBDA result : result.status = "rejected")
      fulfilled == SelectSeq(settled, LAMBDA result : result.status = "fulfilled")
  IN IF Len(rejected) > 0 THEN Threw(rejected[1].reason)
     ELSE Returned([k \in 1..Len(fulfilled) |-> fulfilled[k].value])

\* results.map(...).filter(result => result !== null) of scrapeMultipleUrls,
\* on the settled promises
CollectResults(settled) ==
  LET mapped == [ i \in 1..Len(settled) |->
                    IF settled[i].status = "fulfilled"
                    THEN [isNull |-> FALSE, value |-> settled[i].value]
                    ELSE [isNull |-> TRUE] ]
      kept == SelectSeq(mapped, LAMBDA result : ~result.isNull)
  IN Returned([k \in 1..Len(kept) |-> kept[k].value])

\* ------------------------------------------------------------------------
\* services/rag.service
\* ------------------------------------------------------------------------

\* the document content built from the metadata alone
MetadataContent(metadata) ==
  metadata.title \o <<"\n">> \o OrElse(metadata.description, <<>>) \o <<"\n">>
    \o Join(metadata.keywords, <<" ">>)

\* the document content once the page has been scraped
ScrapedDocumentContent(metadata, scrapedData) ==
  metadata.title \o <<"\n">> \o scrapedData.content \o <<"\n">>
    \o Join(metadata.keywords, <<" ">>)

\* enrichedMetadata of addUrlDocument
EnrichedMetadata(metadata, extractContent) ==
  [ url |-> metadata.url,
    title |-> metadata.title,
    libraryName |-> metadata.libraryName,
    version |-> metadata.version,
    category |-> metadata.category,
    keywords |-> formatKeywordsForStorage(metadata.keywords),
    description |-> OrElse(metadata.description, <<>>),
    section |-> OrElse(metadata.section, <<>>),
    lastUpdated |-> OrElse(metadata.lastUpdated, <<>>),
    docType |-> URL_DOCUMENT,
    contentExtracted |-> extractContent,
    addedAt |-> NowIso,
    searchableText |-> generateSearchableText(metadata) ]

\* addUrlDocument as it would be without the try/catch around scrapeUrl
addUrlDocument_Propagate(idx, docId, metadata, extractContent, scrape, write) ==
  LET documentContent ==
        IF extractContent THEN ScrapedDocumentContent(metadata, scrape.data)
        ELSE MetadataContent(metadata)
      enrichedMetadata == EnrichedMetadata(metadata, extractContent)
      request == [ kind |-> "add", id |-> docId, metadata |-> enrichedMetadata,
                   document |-> documentContent ]
  IN IF extractContent /\ ~scrape.ok
     THEN [ index |-> idx, requests |-> <<>>, ret |-> Threw(scrape.error) ]
     ELSE IF write.ok
     THEN [ index |-> addItems(idx, docId, enrichedMetadata, documentContent),
            requests |-> <<request>>, ret |-> Returned(docId) ]
     ELSE [ index |-> idx, requests |-> <<request>>, ret |-> Threw(write.error) ]

\* addUrlDocument as it would be if its catch threw an error of its own
addUrlDocument_Wrapped(idx, docId, metadata, extractContent, scrape, write) ==
  LET documentContent ==
        IF extractContent /\ scrape.ok
        THEN ScrapedDocumentContent(metadata, scrape.data)
        ELSE MetadataContent(metadata)
      enrichedMetadata == EnrichedMetadata(metadata, extractContent)
      request == [ kind |-> "add", id |-> docId, metadata |-> enrichedMetadata,
                   document |-> documentContent ]
  IN IF write.ok
     THEN [ index |-> addItems(idx, docId, enrichedMetadata, documentContent),
            requests |-> <<request>>, ret |-> Returned(docId) ]
     ELSE [ index |-> idx, requests |-> <<request>>,
            ret |-> Threw(Error("Failed to add URL document")) ]

\* addUrlDocument as it would be if contentExtracted told whether the content
\* was scraped
addUrlDocument_FlagFromScrape(idx, docId, metadata, extractContent, scrape, write) ==
  LET documentContent ==
        IF extractContent /\ scrape.ok
        THEN ScrapedDocumentContent(metadata, scrape.data)
        ELSE MetadataContent(metadata)
      enrichedMetadata == EnrichedMetadata(metadata, extractContent /\ scrape.ok)
      request == [ kind |-> "add", id |-> docId, metadata |-> enrichedMetadata,
                   document |-> documentContent ]
  IN IF write.ok
     THEN [ index |-> addItems(idx, docId, enrichedMetadata, documentContent),
            requests |-> <<request>>, ret |-> Returned(docId) ]
     ELSE [ index |-> idx, requests |-> <<request>>, ret |-> Threw(write.error) ]

\* RagService.addUrlDocument. scrape is the outcome of scraperService.scrapeUrl
\* (looked at only when extractContent), write the outcome of chroma.addItems.
\* Gives the index afterwards, the requests issued and the value returned or
\* the error thrown.
addUrlDocument(idx, docId, metadata, extractContent, scrape, write) ==
  LET documentContent ==
        IF extractContent /\ scrape.ok
        THEN ScrapedDocumentContent(metadata, scrape.data)
        ELSE MetadataContent(metadata)
      enrichedMetadata == EnrichedMetadata(metadata, extractContent)
      request == [ kind |-> "add", id |-> docId, metadata |-> enrichedMetadata,
                   document |-> documentContent ]
  IN IF write.ok
     THEN [ index |-> addItems(idx, docId, enrichedMetadata, documentContent),
            requests |-> <<request>>, ret |-> Returned(docId) ]
     ELSE [ index |-> idx, requests |-> <<request>>, ret |-> Threw(write.error) ]

\* { docType: LEGACY_DOCUMENT, addedAt: now, ...metadata }: the spread last
LegacyMetadata_SpreadLast(metadata) ==
  [ k \in DOMAIN metadata \cup {"docType", "addedAt"} |->
      IF k \in DOMAIN metadata THEN metadata[k]
      ELSE IF k = "docType" THEN LEGACY_DOCUMENT
      ELSE NowIso ]

\* { ...metadata, docType: LEGACY_DOCUMENT, addedAt: now }
LegacyMetadata(metadata) ==
  [ k \in DOMAIN metadata \cup {"docType", "addedAt"} |->
      IF k = "docType" THEN LEGACY_DOCUMENT
      ELSE IF k = "addedAt" THEN NowIso
      ELSE metadata[k] ]

\* RagService.addDocument (legacy)
addDocument(idx, docId, rawText, metadata, write) ==
  LET enrichedMetadata == LegacyMetadata(metadata)
      request == [ kind |-> "add", id |-> docId, metadata |-> enrichedMetadata,
                   document |-> rawText ]
  IN IF write.ok
     THEN [ index |-> addItems(idx, docId, enrichedMetadata, rawText),
            requests |-> <<request>>, ret |-> Returned(<<docId>>) ]
     ELSE [ index |-> idx, requests |-> <<request>>, ret |-> Threw(write.error) ]

\* options.nResults || 5
DefaultQueryResults == 5

\* the nResults default of the searchBy methods and the limit default of
\* search-documentation
DefaultSearchResults == 10

\* the DocumentResult made from the records the index answered with
DocumentResult(records) ==
  [ ids |-> [i \in 1..Len(records) |-> records[i].id],
    documents |-> [i \in 1..Len(records) |-> records[i].document],
    metadatas |-> [i \in 1..Len(records) |-> records[i].metadata] ]

\* RagService.query; nResults 0 stands for an omitted nResults
query(idx, where, nResults, outcome) ==
  LET n == IF nResults = 0 THEN DefaultQueryResults ELSE nResults
      request == [ kind |-> "query", where |-> where, nResults |-> n ]
  IN IF outcome.ok
     THEN [ index |-> idx, requests |-> <<request>>,
            ret |-> Returned(DocumentResult(queryItems(idx, where, n))) ]
     ELSE [ index |-> idx, requests |-> <<request>>, ret |-> Threw(outcome.error) ]

\* RagService.getDocuments
getDocuments(idx, where, outcome) ==
  LET request == [ kind |-> "get", where |-> where ]
  IN IF outcome.ok
     THEN [ index |-> idx, requests |-> <<request>>,
            ret |-> Returned(DocumentResult(getItems(idx, where))) ]
     ELSE [ index |-> idx, requests |-> <<request>>, ret |-> Threw(outcome.error) ]

\* RagService.deleteDocuments by where clause
deleteDocuments(idx, where, outcome) ==
  LET request == [ kind |-> "delete", where |-> where ]
  IN IF outcome.ok
     THEN [ index |-> deleteItems(idx, where), requests |-> <<request>>,
            ret |-> Returned(UndefinedObj) ]
     ELSE [ index |-> idx, requests |-> <<request>>, ret |-> Threw(outcome.error) ]

\* RagService.getDocumentCount
getDocumentCount(idx, outcome) ==
  LET request == [ kind |-> "count" ]
  IN IF outcome.ok
     THEN [ index |-> idx, requests |-> <<request>>, ret |-> Returned(Len(idx)) ]
     ELSE [ index |-> idx, requests |-> <<request>>, ret |-> Threw(outcome.error) ]

searchByLibrary(idx, libraryName, version, nResults, outcome) ==
  query(idx, buildUrlDocumentWhere(
               [libraryName |-> libraryName, version |-> version,
                category |-> UndefinedStr]),
        nResults, outcome)

searchByCategory(idx, category, libraryName, nResults, outcome) ==
  query(idx, buildUrlDocumentWhere(
               [category |-> category, libraryName |-> libraryName,
                version |-> UndefinedStr]),
        nResults, outcome)

searchByKeywords(idx, keywords, nResults, outcome) ==
  query(idx, createDocTypeCondition(URL_DOCUMENT), nResults, outcome)

getLibraryUrls(idx, libraryName, version, outcome) ==
  getDocuments(idx, buildUrlDocumentWhere(
                      [libraryName |-> libraryName, version |-> version,
                       category |-> UndefinedStr]),
               outcome)

\* ------------------------------------------------------------------------
\* The tools over the RagService
\* ------------------------------------------------------------------------

\* error instanceof Error ? error.message : String(error)
ErrorText(e) == e.message

ErrorPayload(e) == [isError |-> TRUE, error |-> ErrorText(e)]

ResultPayload(documentResult) ==
  [isError |-> FALSE, resultCount |-> Len(documentResult.ids),
   ids |-> documentResult.ids, metadatas |-> documentResult.metadatas]

PayloadOf(r) ==
  IF r.ret.threw THEN ErrorPayload(r.ret.error) ELSE ResultPayload(r.ret.value)

RequiredMissing(what) == Error(what)

\* searchDocumentationTool.handler; a.limit is the schema's limit
searchDocumentation(idx, a, outcome) ==
  LET failed(what) ==
        [index |-> idx, requests |-> <<>>,
         payload |-> ErrorPayload(RequiredMissing(what))]
      done(r) == [index |-> r.index, requests |-> r.requests, payload |-> PayloadOf(r)]
  IN CASE a.searchType = "library" ->
            IF ~Truthy(a.libraryName)
            THEN failed("libraryName is required for library search")
            ELSE done(searchByLibrary(idx, a.libraryName, a.version, a.limit, outcome))
       [] a.searchType = "category" ->
            IF ~Truthy(a.category)
            THEN failed("category is required for category search")
            ELSE done(searchByCategory(idx, a.category, a.libraryName, a.limit, outcome))
       [] a.searchType = "keywords" ->
            IF a.keywords = UndefinedArr \/ Len(a.keywords) = 0
            THEN failed("keywords are required for keyword search")
            ELSE done(searchByKeywords(idx, a.keywords, a.limit, outcome))
       [] OTHER ->
            done(query(idx,
                       buildUrlDocumentWhere(
                         [libraryName |-> a.libraryName, version |-> a.version,
                          category |-> a.category]),
                       a.limit, outcome))

\* the where object of queryRagInformationTool.handler
QueryRagWhere(sourceType, libraryName) ==
  LET keys == (IF Truthy(sourceType) THEN {"sourceType"} ELSE {})
                \cup (IF Truthy(libraryName) THEN {"libraryName"} ELSE {})
  IN IF keys = {} THEN UndefinedObj
     ELSE [k \in keys |->
             IF k = "sourceType" THEN sourceType ELSE toLowerCase(libraryName)]

\* queryRagInformationTool.handler
queryRagInformation(idx, a, outcome) ==
  LET r == query(idx, QueryRagWhere(a.sourceType, a.libraryName), a.limit, outcome)
  IN [index |-> r.index, requests |-> r.requests, payload |-> PayloadOf(r)]

\* listDocumentationTool.handler
listDocumentation(idx, libraryName, outcome) ==
  LET where == buildUrlDocumentWhere(
                 [libraryName |-> libraryName, version |-> UndefinedStr,
                  category |-> UndefinedStr])
      r == getDocuments(idx, where, outcome)
  IN [index |-> r.index, requests |-> r.requests, payload |-> PayloadOf(r)]

\* listRagInformationTool.handler
listRagInformation(idx, countOutcome, getOutcome) ==
  LET c == getDocumentCount(idx, countOutcome)
      g == getDocuments(idx, UndefinedObj, getOutcome)
  IN IF c.ret.threw
     THEN [index |-> idx, requests |-> c.requests, payload |-> ErrorPayload(c.ret.error)]
     ELSE IF c.ret.value = 0
     THEN [index |-> idx, requests |-> c.requests,
           payload |-> [isError |-> FALSE, resultCount |-> 0, ids |-> <<>>,
                        metadatas |-> <<>>]]
     ELSE [index |-> g.index, requests |-> c.requests \o g.requests,
           payload |-> PayloadOf(g)]

\* createRagInformationTool.handler: the schema lower-cases metadata.libraryName
createRagInformation(idx, docId, rawText, metadata, write) ==
  LET parsed == [metadata EXCEPT !.libraryName = toLowerCase(@)]
      r == addDocument(idx, docId, rawText, parsed, write)
  IN [index |-> r.index, requests |-> r.requests,
      payload |-> [isError |-> FALSE,
                   message |-> IF r.ret.threw
                               THEN "Failed to add document to RAG"
                               ELSE "Document added to RAG successfully"]]

\* ------------------------------------------------------------------------
\* tools/bulk-add-urls
\* ------------------------------------------------------------------------

NoCall == [op |-> "none", requests |-> <<>>]

NoParams == [baseUrl |-> "none"]

NoResults == [successful |-> <<>>, failed |-> <<>>]

NoResponse == [kind |-> "none"]

NoMulti == [pc |-> "idle"]

Writers == {"first", "second"}

\* no orchestration has called yet
NoWriters == [w \in Writers |-> [pc |-> "idle", calls |-> 0, added |-> <<>>]]

\* extractSectionFromUrl as it would be with findLastIndex for findIndex
extractSectionFromUrl_LastMarker(url) ==
  IF ~Parses(url) THEN General
  ELSE LET pathParts == SelectSeq(url.path, LAMBDA part : Len(part) > 0)
           isDoc(part) == toLowerCase(part) \in {Seg_docs, Seg_doc}
           found == { i \in 1..Len(pathParts) : isDoc(pathParts[i]) }
           docIndex == IF found = {} THEN 0
                       ELSE CHOOSE i \in found : \A j \in found : i >= j
       IN IF docIndex >= 1 /\ docIndex < Len(pathParts)
          THEN pathParts[docIndex + 1]
          ELSE IF pathParts = <<>> THEN General
          ELSE OrElse(pathParts[Len(pathParts)], General)

\* extractSectionFromUrl
extractSectionFromUrl(url) ==
  IF ~Parses(url) THEN General
  ELSE LET pathParts == SelectSeq(url.path, LAMBDA part : Len(part) > 0)
           isDoc(part) == toLowerCase(part) \in {Seg_docs, Seg_doc}
           found == { i \in 1..Len(pathParts) : isDoc(pathParts[i]) }
           docIndex == IF found = {} THEN 0
                       ELSE CHOOSE i \in found : \A j \in found : i <= j
       IN IF docIndex >= 1 /\ docIndex < Len(pathParts)
          THEN pathParts[docIndex + 1]
          ELSE IF pathParts = <<>> THEN General
          ELSE OrElse(pathParts[Len(pathParts)], General)

\* the keywords as they would be without the filter that removes duplicates
CandidateKeywords_NoFilter(extractedUrl, p) ==
  << toLowerCase(p.libraryName), p.version, toLowerCase(p.defaultCategory) >>
    \o SelectSeq(SplitWhitespace(toLowerCase(extractedUrl.text)),
                 LAMBDA word : Len(word) > 2)

\* the keywords of one candidate
CandidateKeywords(extractedUrl, p) ==
  RemoveDuplicates(
    << toLowerCase(p.libraryName), p.version, toLowerCase(p.defaultCategory) >>
      \o SelectSeq(SplitWhitespace(toLowerCase(extractedUrl.text)),
                   LAMBDA word : Len(word) > 2))

\* the UrlDocumentInput the loop builds for one candidate
CandidateMetadata(extractedUrl, p) ==
  [ url |-> extractedUrl.url,
    title |-> OrElse(OrElse(extractedUrl.title, extractedUrl.text), SinTitulo),
    libraryName |-> toLowerCase(p.libraryName),
    version |-> p.version,
    category |-> toLowerCase(p.defaultCategory),
    keywords |-> CandidateKeywords(extractedUrl, p),
    description |-> OrElse(extractedUrl.description,
                           p.libraryName \o DocumentationPage),
    section |-> extractSectionFromUrl(extractedUrl.url),
    lastUpdated |-> NowIso ]

\* error instanceof Error ? error.message : "Error desconocido"
FailureMessage(error) == IF error.isError THEN error.message ELSE ErrorDesconocido

\* the try/catch as it would be with an empty catch block
RecordCandidate_Dropped(res, extractedUrl, ret) ==
  IF ret.threw THEN res
  ELSE [res EXCEPT !.successful = Append(@, extractedUrl.url)]

\* the try/catch as it would be with unshift() in place of push()
RecordCandidate_Unshift(res, extractedUrl, ret) ==
  IF ret.threw
  THEN [res EXCEPT !.failed =
          <<[url |-> extractedUrl.url, error |-> FailureMessage(ret.error)]>> \o @]
  ELSE [res EXCEPT !.successful = <<extractedUrl.url>> \o @]

\* the try/catch around one candidate: ret is what addUrlDocument returned or threw
RecordCandidate(res, extractedUrl, ret) ==
  IF ret.threw
  THEN [res EXCEPT !.failed =
          Append(@, [url |-> extractedUrl.url, error |-> FailureMessage(ret.error)])]
  ELSE [res EXCEPT !.successful = Append(@, extractedUrl.url)]

\* Math.round((successful / total) * 100); NaN when total is 0
NaN == -1

SuccessRate(successful, total) ==
  IF total = 0 THEN NaN ELSE (200 * successful + total) \div (2 * total)

\* the response of a batch that went through the loop
CompletedResponse(p, urls, res) ==
  [ kind |-> "completed",
    baseUrl |-> p.baseUrl,
    totalUrls |-> Len(urls),
    successful |-> Len(res.successful),
    failed |-> Len(res.failed),
    successRate |-> SuccessRate(Len(res.successful), Len(urls)) ]

\* the response when discovery found nothing
NoUrlsResponse(p) == [ kind |-> "noUrls", baseUrl |-> p.baseUrl, docMode |-> p.docMode ]

\* the response of the outer catch
BulkErrorResponse(p, error) ==
  [ kind |-> "error", baseUrl |-> p.baseUrl, error |-> error.message,
    isError |-> TRUE ]

\* the URL discovery the handler runs on the seed page
Discover(p, fetch) ==
  IF p.docMode
  THEN extractDocumentationUrls(p.baseUrl, [none |-> TRUE], fetch)
  ELSE extractUrls(p.baseUrl, NoExtractOptions, fetch)

\* the handler as it would be without the early return on an empty list
AfterDiscovery_NoEarlyReturn(p, ret) ==
  IF ret.threw
  THEN [pc |-> "done", response |-> BulkErrorResponse(p, ret.error), urls |-> <<>>]
  ELSE IF Len(ret.value.extractedUrls) = 0
  THEN [pc |-> "done", response |-> CompletedResponse(p, <<>>, NoResults),
        urls |-> <<>>]
  ELSE [pc |-> IF p.extractContent THEN "scrape" ELSE "write",
        response |-> NoResponse, urls |-> ret.value.extractedUrls]

\* what the handler does with the outcome of discovery: answer at once, or
\* enter the loop
AfterDiscovery(p, ret) ==
  IF ret.threw
  THEN [pc |-> "done", response |-> BulkErrorResponse(p, ret.error), urls |-> <<>>]
  ELSE IF Len(ret.value.extractedUrls) = 0
  THEN [pc |-> "done", response |-> NoUrlsResponse(p), urls |-> <<>>]
  ELSE [pc |-> IF p.extractContent THEN "scrape" ELSE "write",
        response |-> NoResponse, urls |-> ret.value.extractedUrls]

\* the loop as it would be if it went on to the candidate after the next
AfterCandidate_Skip(p, urls, at, res) ==
  IF at + 1 < Len(urls)
  THEN [pc |-> IF p.extractContent THEN "scrape" ELSE "write",
        cursor |-> at + 2, response |-> NoResponse]
  ELSE [pc |-> "done", cursor |-> at, response |-> CompletedResponse(p, urls, res)]

\* where the handler goes once a candidate is recorded: the next candidate, or
\* the response after the last
AfterCandidate(p, urls, at, res) ==
  IF at < Len(urls)
  THEN [pc |-> IF p.extractContent THEN "scrape" ELSE "write",
        cursor |-> at + 1, response |-> NoResponse]
  ELSE [pc |-> "done", cursor |-> at, response |-> CompletedResponse(p, urls, res)]

\* the delay between two candidates, in milliseconds
CandidateDelay == 100


\* ------------------------------------------------------------------------
\* Inputs
\* ------------------------------------------------------------------------

Seg_intro == <<"i", "n", "t", "r", "o">>

Lib_Rx == <<"R", "x">>

Lib_rx == <<"r", "x">>

Ver_1B == <<"1", "B">>

Ver_1b == <<"1", "b">>

Cat_Ap == <<"A", "p">>

Cat_ap == <<"a", "p">>

SourceDocumentation ==
  <<"d", "o", "c", "u", "m", "e", "n", "t", "a", "t", "i", "o", "n">>

\* UrlDocumentInput values handed to addUrlDocument by a direct caller
UrlDocInputs ==
  { [ url |-> Url("example.com", <<Seg_docs, Seg_intro>>), title |-> <<"T">>,
      libraryName |-> Lib_Rx, version |-> Ver_1B, category |-> Cat_Ap,
      keywords |-> <<Lib_rx, <<"k", "w">>>>, description |-> UndefinedStr,
      section |-> UndefinedStr, lastUpdated |-> UndefinedStr ],
    [ url |-> Url("example.com", <<Seg_docs>>), title |-> <<"t">>,
      libraryName |-> Lib_rx, version |-> Ver_1b, category |-> Cat_ap,
      keywords |-> <<Lib_rx>>, description |-> <<"d">>,
      section |-> Seg_intro, lastUpdated |-> NowIso ] }

\* what scraperService.scrapeUrl can do
ScrapeError == Error("Failed to scrape URL")

ScrapeOutcomes ==
  { [ok |-> TRUE, data |-> [content |-> <<"b", "o", "d", "y">>]],
    [ok |-> FALSE, error |-> ScrapeError] }

\* scrapeUrl is not called
NotScraped == [ok |-> FALSE, error |-> Error("not called")]

\* metadata of the create-rag-information tool; the second carries a docType
LegacyInputs ==
  { [ sourceType |-> SourceDocumentation, libraryName |-> Lib_Rx, version |-> Ver_1B ],
    [ sourceType |-> SourceDocumentation, libraryName |-> Lib_rx, version |-> Ver_1b,
      docType |-> URL_DOCUMENT ] }

LibraryArgs == { UndefinedStr, <<>>, Lib_Rx, Lib_rx }

VersionArgs == { UndefinedStr, Ver_1B }

CategoryArgs == { UndefinedStr, Cat_Ap }

KeywordArgs == { UndefinedArr, <<>>, <<Lib_rx>> }

SearchArgs ==
  { [searchType |-> "general", libraryName |-> l, version |-> v, category |-> c,
     keywords |-> UndefinedArr, limit |-> DefaultSearchResults]
      : l \in LibraryArgs \ {<<>>}, v \in VersionArgs, c \in CategoryArgs }
  \cup
  { [searchType |-> "library", libraryName |-> l, version |-> v,
     category |-> UndefinedStr, keywords |-> UndefinedArr,
     limit |-> DefaultSearchResults]
      : l \in {UndefinedStr, Lib_Rx}, v \in VersionArgs }
  \cup
  { [searchType |-> "category", libraryName |-> l, version |-> UndefinedStr,
     category |-> c, keywords |-> UndefinedArr, limit |-> DefaultSearchResults]
      : l \in {UndefinedStr, Lib_Rx}, c \in CategoryArgs }
  \cup
  { [searchType |-> "keywords", libraryName |-> UndefinedStr,
     version |-> UndefinedStr, category |-> UndefinedStr, keywords |-> k,
     limit |-> DefaultSearchResults]
      : k \in KeywordArgs }

QueryRagArgs ==
  { [sourceType |-> t, libraryName |-> l, limit |-> DefaultQueryResults]
      : t \in {UndefinedStr, SourceDocumentation}, l \in LibraryArgs \ {<<>>} }

\* the index is made to fail with these arguments only: a rejected request
\* is handled the same way whatever the filter
FailsWith(a) ==
  /\ a.libraryName = Lib_Rx
  /\ "version" \in DOMAIN a => a.version = UndefinedStr
  /\ "category" \in DOMAIN a => a.category = UndefinedStr
  /\ "sourceType" \in DOMAIN a => a.sourceType = UndefinedStr

\* ------------------------------------------------------------------------
\* Initial state
\* ------------------------------------------------------------------------

Init ==
  /\ index = <<>>
  /\ nextId = 0
  /\ lastCall = NoCall
  /\ pc = "idle"
  /\ params = NoParams
  /\ urlsToProcess = <<>>
  /\ cursor = 0
  /\ scraped = NotScraped
  /\ results = NoResults
  /\ response = NoResponse
  /\ log = <<>>
  /\ multi = NoMulti
  /\ writers = NoWriters

\* ------------------------------------------------------------------------
\* Calls of the RagService and of the tools over it
\* ------------------------------------------------------------------------

\* a caller's ragService.addUrlDocument(metadata, extractContent)
CallAddUrlDocument ==
  /\ nextId < MaxDocs
  /\ \E m \in UrlDocInputs, extractContent \in BOOLEAN,
        scrape \in ScrapeOutcomes, write \in IndexOutcomes :
       LET r == addUrlDocument(index, nextId, m, extractContent,
                               IF extractContent THEN scrape ELSE NotScraped, write)
       IN /\ index' = r.index
          /\ lastCall' = [ op |-> "addUrlDocument", metadata |-> m,
                           extractContent |-> extractContent,
                           scrape |-> IF extractContent THEN scrape ELSE NotScraped,
                           write |-> write, before |-> index,
                           requests |-> r.requests, ret |-> r.ret ]
  /\ nextId' = nextId + 1
  /\ UNCHANGED bulkVars
  /\ UNCHANGED concurrentVars

\* the create-rag-information tool
CallCreateRagInformation ==
  /\ nextId < MaxDocs
  /\ \E m \in LegacyInputs, write \in IndexOutcomes :
       LET r == createRagInformation(index, nextId, <<"r", "a", "w">>, m, write)
       IN /\ index' = r.index
          /\ lastCall' = [ op |-> "createRagInformation", metadata |-> m,
                           write |-> write, before |-> index,
                           requests |-> r.requests, payload |-> r.payload ]
  /\ nextId' = nextId + 1
  /\ UNCHANGED bulkVars
  /\ UNCHANGED concurrentVars

\* the search-documentation tool
CallSearchDocumentation ==
  /\ \E a \in SearchArgs, outcome \in IndexOutcomes :
       /\ outcome.ok \/ FailsWith(a) \/ a.searchType = "keywords"
       /\ LET r == searchDocumentation(index, a, outcome)
          IN lastCall' = [ op |-> "searchDocumentation", args |-> a,
                           outcome |-> outcome, before |-> index,
                           requests |-> r.requests, payload |-> r.payload ]
  /\ UNCHANGED << index, nextId >>
  /\ UNCHANGED bulkVars
  /\ UNCHANGED concurrentVars

\* the query-rag-information tool
CallQueryRagInformation ==
  /\ \E a \in QueryRagArgs, outcome \in IndexOutcomes :
       /\ outcome.ok \/ FailsWith(a)
       /\ LET r == queryRagInformation(index, a, outcome)
          IN lastCall' = [ op |-> "queryRagInformation", args |-> a,
                           outcome |-> outcome, before |-> index,
                           requests |-> r.requests, payload |-> r.payload ]
  /\ UNCHANGED << index, nextId >>
  /\ UNCHANGED bulkVars
  /\ UNCHANGED concurrentVars

\* the list-documentation tool
CallListDocumentation ==
  /\ \E l \in LibraryArgs, outcome \in IndexOutcomes :
       /\ outcome.ok \/ l = Lib_Rx
       /\ LET r == listDocumentation(index, l, outcome)
          IN lastCall' = [ op |-> "listDocumentation",
                           args |-> [libraryName |-> l, version |-> UndefinedStr,
                                     category |-> UndefinedStr],
                           outcome |-> outcome, before |-> index,
                           requests |-> r.requests, payload |-> r.payload ]
  /\ UNCHANGED << index, nextId >>
  /\ UNCHANGED bulkVars
  /\ UNCHANGED concurrentVars

\* the list-rag-information tool
CallListRagInformation ==
  /\ \E countOutcome \in IndexOutcomes, getOutcome \in IndexOutcomes :
       LET r == listRagInformation(index, countOutcome, getOutcome)
       IN lastCall' = [ op |-> "listRagInformation", before |-> index,
                        requests |-> r.requests, payload |-> r.payload ]
  /\ UNCHANGED << index, nextId >>
  /\ UNCHANGED bulkVars
  /\ UNCHANGED concurrentVars

\* a caller's ragService.getLibraryUrls(libraryName, version)
CallGetLibraryUrls ==
  /\ \E l \in {Lib_Rx, Lib_rx}, v \in VersionArgs, outcome \in IndexOutcomes :
       /\ outcome.ok \/ (l = Lib_Rx /\ v = UndefinedStr)
       /\ LET r == getLibraryUrls(index, l, v, outcome)
          IN lastCall' = [ op |-> "getLibraryUrls",
                           args |-> [libraryName |-> l, version |-> v,
                                     category |-> UndefinedStr],
                           outcome |-> outcome, before |-> index,
                           requests |-> r.requests, ret |-> r.ret ]
  /\ UNCHANGED << index, nextId >>
  /\ UNCHANGED bulkVars
  /\ UNCHANGED concurrentVars

\* a caller's ragService.query({queryTexts, where}) with a where of its own or none
CallQuery ==
  /\ \E where \in {UndefinedObj, createDocTypeCondition(LEGACY_DOCUMENT)},
        outcome \in IndexOutcomes :
       LET r == query(index, where, 0, outcome)
       IN lastCall' = [ op |-> "query", where |-> where, outcome |-> outcome,
                        before |-> index, requests |-> r.requests, ret |-> r.ret ]
  /\ UNCHANGED << index, nextId >>
  /\ UNCHANGED bulkVars
  /\ UNCHANGED concurrentVars

\* a caller's ragService.deleteDocuments({where})
CallDeleteDocuments ==
  /\ \E l \in {Lib_Rx, Lib_rx}, outcome \in IndexOutcomes :
       LET where == [libraryName |-> l]
           r == deleteDocuments(index, where, outcome)
       IN /\ index' = r.index
          /\ lastCall' = [ op |-> "deleteDocuments", where |-> where,
                           outcome |-> outcome, before |-> index,
                           requests |-> r.requests, ret |-> r.ret ]
  /\ UNCHANGED nextId
  /\ UNCHANGED bulkVars
  /\ UNCHANGED concurrentVars

\* a caller's ragService.getDocumentCount()
CallGetDocumentCount ==
  /\ \E outcome \in IndexOutcomes :
       LET r == getDocumentCount(index, outcome)
       IN lastCall' = [ op |-> "getDocumentCount", outcome |-> outcome,
                        before |-> index, requests |-> r.requests, ret |-> r.ret ]
  /\ UNCHANGED << index, nextId >>
  /\ UNCHANGED bulkVars
  /\ UNCHANGED concurrentVars

NextService ==
  \/ CallAddUrlDocument
  \/ CallCreateRagInformation
  \/ CallSearchDocumentation
  \/ CallQueryRagInformation
  \/ CallListDocumentation
  \/ CallListRagInformation
  \/ CallGetLibraryUrls
  \/ CallQuery
  \/ CallDeleteDocuments
  \/ CallGetDocumentCount

SpecService == Init /\ [][NextService]_vars

\* ------------------------------------------------------------------------
\* The bulk-add-urls handler, step by step
\* ------------------------------------------------------------------------

Seg_guide == <<"g", "u", "i", "d", "e">>

Seg_setup == <<"s", "e", "t", "u", "p">>

PathHref(path) == [kind |-> "path", path |-> path, hash |-> FALSE]

Anchor(href, text, container) ==
  [ href |-> href, text |-> text, title |-> UndefinedStr,
    dataDescription |-> UndefinedStr, closestDescription |-> UndefinedStr,
    nextText |-> <<>>, container |-> container ]

\* the anchors the seed pages are made of
AnchorPool ==
  { Anchor(PathHref(<<Seg_docs, Seg_intro>>), <<"I", "n", "t", "r", "o">>, "main"),
    [ Anchor(PathHref(<<Seg_docs, Seg_intro>>), <<"G", "o">>, "nav")
        EXCEPT !.title = <<"S", "t", "a", "r", "t">> ],
    [ Anchor(PathHref(<<Seg_docs, Seg_guide>>),
             <<"U", "s", "e", " ", "R", "x", " ", "n", "o", "w">>, "main")
        EXCEPT !.dataDescription = <<"H", "o", "w">> ],
    Anchor(PathHref(<<Seg_guide, Seg_setup>>), <<>>, "main"),
    Anchor(PathHref(<<Seg_docs, Seg_changelog>>), <<"L", "o", "g">>, "main"),
    Anchor([kind |-> "absolute",
            url |-> Url("external.com", <<Seg_docs, Seg_intro>>)],
           <<"E", "x", "t">>, "main") }

\* the pages: up to MaxAnchors anchors
RECURSIVE SeqsUpTo(_, _)
SeqsUpTo(S, n) ==
  IF n = 0 THEN { <<>> }
  ELSE LET shorter == SeqsUpTo(S, n - 1)
       IN shorter \cup { Append(q, x) : q \in shorter, x \in S }

Pages == SeqsUpTo(AnchorPool, MaxAnchors)

FetchOutcomes ==
  { [ok |-> TRUE, html |-> h] : h \in Pages } \cup { [ok |-> FALSE, error |-> FetchError] }

SeedUrl == Url("example.com", <<Seg_docs>>)

FtpSeedUrl == [SeedUrl EXCEPT !.scheme = "ftp"]

MalformedSeedUrl == [SeedUrl EXCEPT !.scheme = ""]

\* the arguments of a bulk-add-urls call
BulkInputs ==
  { [ baseUrl |-> u, libraryName |-> Lib_Rx, version |-> Ver_1B,
      defaultCategory |-> Cat_Ap, extractContent |-> e, docMode |-> d ]
      : u \in {SeedUrl, FtpSeedUrl, MalformedSeedUrl},
        e \in BOOLEAN, d \in BOOLEAN }
    \cup { [ baseUrl |-> SeedUrl, libraryName |-> <<"N", "o", "w">>,
             version |-> Ver_1B, defaultCategory |-> <<"N", "O", "W">>,
             extractContent |-> FALSE, docMode |-> TRUE ] }

\* what chroma.addItems can do inside a batch
WriteOutcomes == IndexOutcomes \cup { [ok |-> FALSE, error |-> RejectedValue] }

serviceVars == << lastCall >>

\* the tool is called
BulkStart ==
  /\ pc = "idle"
  /\ \E p \in BulkInputs : params' = p
  /\ pc' = "discover"
  /\ results' = NoResults
  /\ UNCHANGED << index, nextId, urlsToProcess, cursor, scraped, response, log >>
  /\ UNCHANGED serviceVars
  /\ UNCHANGED concurrentVars

\* lines 70-103: discovery on the seed page, and what follows from it
BulkDiscover ==
  /\ pc = "discover"
  /\ \E fetch \in FetchOutcomes :
       LET d == Discover(params, fetch)
           next == AfterDiscovery(params, d.ret)
       IN /\ pc' = next.pc
          /\ response' = next.response
          /\ urlsToProcess' = next.urls
          /\ cursor' = IF next.urls = <<>> THEN 0 ELSE 1
          /\ log' = log \o [ i \in 1..Len(d.requests) |->
                               [op |-> "fetch", url |-> d.requests[i], ok |-> fetch.ok] ]
  /\ UNCHANGED << index, nextId, params, scraped, results >>
  /\ UNCHANGED serviceVars
  /\ UNCHANGED concurrentVars

\* addUrlDocument, up to the answer of scrapeUrl
BulkScrape ==
  /\ pc = "scrape"
  /\ \E outcome \in ScrapeOutcomes :
       /\ scraped' = outcome
       /\ log' = Append(log, [ op |-> "scrape", url |-> urlsToProcess[cursor].url,
                               ok |-> outcome.ok ])
  /\ pc' = "write"
  /\ UNCHANGED << index, nextId, params, urlsToProcess, cursor, results, response >>
  /\ UNCHANGED serviceVars
  /\ UNCHANGED concurrentVars

\* addUrlDocument, from the index write on, and the handler's try/catch
\* around it
BulkWrite ==
  /\ pc = "write"
  /\ \E write \in WriteOutcomes :
       LET extractedUrl == urlsToProcess[cursor]
           r == addUrlDocument(index, nextId, CandidateMetadata(extractedUrl, params),
                               params.extractContent, scraped, write)
           res == RecordCandidate(results, extractedUrl, r.ret)
           next == AfterCandidate(params, urlsToProcess, cursor, res)
       IN /\ index' = r.index
          /\ results' = res
          /\ log' = Append(log, [ op |-> "add", url |-> extractedUrl.url,
                                  metadata |-> CandidateMetadata(extractedUrl, params),
                                  write |-> write ])
          /\ IF r.ret.threw
             THEN /\ pc' = next.pc
                  /\ cursor' = next.cursor
                  /\ response' = next.response
             ELSE /\ pc' = "delay"
                  /\ UNCHANGED << cursor, response >>
  /\ nextId' = nextId + 1
  /\ scraped' = NotScraped
  /\ UNCHANGED << params, urlsToProcess >>
  /\ UNCHANGED serviceVars
  /\ UNCHANGED concurrentVars

\* the delay after a candidate that was added
BulkDelay ==
  /\ pc = "delay"
  /\ LET next == AfterCandidate(params, urlsToProcess, cursor, results)
     IN /\ pc' = next.pc
        /\ cursor' = next.cursor
        /\ response' = next.response
  /\ log' = Append(log, [op |-> "delay", ms |-> CandidateDelay])
  /\ UNCHANGED << index, nextId, params, urlsToProcess, scraped, results >>
  /\ UNCHANGED serviceVars
  /\ UNCHANGED concurrentVars

Next ==
  \/ BulkStart
  \/ BulkDiscover
  \/ BulkScrape
  \/ BulkWrite
  \/ BulkDelay

Spec == Init /\ [][Next]_vars

\* ------------------------------------------------------------------------
\* The filter builder on its own: every combination of options
\* ------------------------------------------------------------------------

Lib_RX == <<"R", "X">>

FilterOptions ==
  { [libraryName |-> l, version |-> v, category |-> c]
      : l \in {UndefinedStr, <<>>, Lib_Rx, Lib_rx, Lib_RX},
        v \in {UndefinedStr, <<>>, Ver_1B, Ver_1b},
        c \in {UndefinedStr, <<>>, Cat_Ap, Cat_ap} }

InitFilter ==
  /\ index = <<>>
  /\ nextId = 0
  /\ lastCall \in { [op |-> "options", requests |-> <<>>, args |-> o] : o \in FilterOptions }
  /\ pc = "idle"
  /\ params = NoParams
  /\ urlsToProcess = <<>>
  /\ cursor = 0
  /\ scraped = NotScraped
  /\ results = NoResults
  /\ response = NoResponse
  /\ log = <<>>
  /\ multi = NoMulti
  /\ writers = NoWriters

\* a caller's buildUrlDocumentWhere(options)
CallBuildUrlDocumentWhere ==
  /\ lastCall.op = "options"
  /\ lastCall' = [ op |-> "buildUrlDocumentWhere", requests |-> <<>>,
                   args |-> lastCall.args,
                   where |-> buildUrlDocumentWhere(lastCall.args) ]
  /\ UNCHANGED << index, nextId >>
  /\ UNCHANGED bulkVars
  /\ UNCHANGED concurrentVars

NextFilter == CallBuildUrlDocumentWhere

SpecFilter == InitFilter /\ [][NextFilter]_vars

\* ------------------------------------------------------------------------
\* Properties of the bulk-add-urls handler
\* ------------------------------------------------------------------------

\* the index writes the handler has asked for so far, with their answers
Adds == SelectSeq(log, LAMBDA e : e.op = "add")

\* the message recorded for a thrown value: its message if it is an Error,
\* the fixed text otherwise
RecordedError(thrown) ==
  IF thrown.isError THEN thrown.message ELSE [text |-> "Error desconocido"]

FailedUrls == [i \in 1..Len(results.failed) |-> results.failed[i].url]

Occurrences(xs, x) == Cardinality({i \in 1..Len(xs) : xs[i] = x})

CandidateUrls == [i \in 1..Len(urlsToProcess) |-> urlsToProcess[i].url]

\* the seed page was fetched and answered
DiscoverySucceeded ==
  /\ params.baseUrl.scheme \in {"http", "https"}
  /\ \E i \in 1..Len(log) : log[i].op = "fetch" /\ log[i].ok

\* the seed was refused, or the fetch of the seed page failed
DiscoveryFailed ==
  \/ params.baseUrl.scheme \notin {"http", "https"}
  \/ \E i \in 1..Len(log) : log[i].op = "fetch" /\ ~log[i].ok

\* C1: a candidate whose processing throws is recorded in the failed list
\* with its URL and the error's message ("Error desconocido" when the thrown
\* value is not an Error), and never among the successful; the candidates
\* after it are still processed, in order, and the batch ends with a
\* completed response that is not an error.
C1_FailedCandidateIsRecordedAndBatchGoesOn ==
  /\ \A k \in 1..Len(Adds) :
       /\ k <= Len(urlsToProcess)
       /\ Adds[k].url = urlsToProcess[k].url
       /\ IF Adds[k].write.ok
          THEN /\ Occurrences(results.successful, Adds[k].url) = 1
               /\ Occurrences(FailedUrls, Adds[k].url) = 0
          ELSE /\ Occurrences(results.successful, Adds[k].url) = 0
               /\ \E i \in 1..Len(results.failed) :
                    results.failed[i] =
                      [url |-> Adds[k].url, error |-> RecordedError(Adds[k].write.error)]
  /\ (pc = "done" /\ urlsToProcess # <<>>) =>
       /\ Len(Adds) = Len(urlsToProcess)
       /\ response.kind = "completed"
       /\ "isError" \notin DOMAIN response

\* three candidates, the second of which threw: two successful, one failed
\* naming the second URL
C1_SecondOfThreeFailed ==
  /\ pc = "done"
  /\ Len(urlsToProcess) = 3
  /\ Len(Adds) = 3
  /\ Adds[1].write.ok /\ ~Adds[2].write.ok /\ Adds[3].write.ok
  /\ Len(results.successful) = 2
  /\ Len(results.failed) = 1
  /\ results.failed[1].url = urlsToProcess[2].url
  /\ response.successful = 2 /\ response.failed = 1

\* xs keeps the order of the candidate list
KeepsCandidateOrder(xs) ==
  \A i, j \in 1..Len(xs) :
    i < j =>
      \E a, b \in 1..Len(CandidateUrls) :
        a < b /\ CandidateUrls[a] = xs[i] /\ CandidateUrls[b] = xs[j]

\* C2: when the batch completes, the successful list and the URLs of the
\* failed list are disjoint subsequences of the candidate list in its order,
\* every candidate URL is in exactly one of them exactly once, and the two
\* lengths add up to the number of candidates.
C2_OrderPreservingPartition ==
  response.kind = "completed" =>
    /\ Len(results.successful) + Len(results.failed) = Len(urlsToProcess)
    /\ response.successful + response.failed = response.totalUrls
    /\ response.totalUrls = Len(urlsToProcess)
    /\ \A i \in 1..Len(CandidateUrls) :
         Occurrences(results.successful, CandidateUrls[i])
           + Occurrences(FailedUrls, CandidateUrls[i]) = 1
    /\ \A i \in 1..Len(results.successful) :
         Occurrences(CandidateUrls, results.successful[i]) = 1
    /\ \A i \in 1..Len(FailedUrls) : Occurrences(CandidateUrls, FailedUrls[i]) = 1
    /\ KeepsCandidateOrder(results.successful)
    /\ KeepsCandidateOrder(FailedUrls)

\* a completed batch of three candidates with two failures and one success
C2_TwoFailedOneSuccessful ==
  /\ response.kind = "completed"
  /\ Len(urlsToProcess) = 3
  /\ Len(results.failed) = 2
  /\ Len(results.successful) = 1

\* C3: when discovery fails (the seed is refused or the seed page cannot be
\* fetched) the handler answers with a payload flagged isError that names the
\* seed URL and carries the error; no candidate is processed, nothing is
\* scraped and nothing is written to the index.
C3_DiscoveryFailureIsAnErrorPayload ==
  (pc \notin {"idle", "discover"} /\ DiscoveryFailed) =>
    /\ pc = "done"
    /\ response.kind = "error"
    /\ "isError" \in DOMAIN response /\ response.isError
    /\ response.baseUrl = params.baseUrl
    /\ response.error.url = params.baseUrl
    /\ urlsToProcess = <<>>
    /\ results = [successful |-> <<>>, failed |-> <<>>]
    /\ index = <<>>
    /\ nextId = 0
    /\ \A i \in 1..Len(log) : log[i].op = "fetch"

\* the seed page could not be fetched and the handler answered with the error
C3_FetchOfSeedFailed ==
  /\ pc = "done"
  /\ params.baseUrl.scheme = "https"
  /\ \E i \in 1..Len(log) : log[i].op = "fetch" /\ ~log[i].ok
  /\ response.kind = "error"

\* C4: when discovery succeeds with no candidate the handler answers with
\* the "no URLs" response, which is not an error and carries no success rate;
\* nothing is written; a success rate is only ever computed over a
\* non-empty candidate list.
C4_NoCandidatesIsNotAnError ==
  /\ (pc \notin {"idle", "discover"} /\ DiscoverySucceeded /\ urlsToProcess = <<>>) =>
       /\ pc = "done"
       /\ response.kind = "noUrls"
       /\ "isError" \notin DOMAIN response
       /\ "successRate" \notin DOMAIN response
       /\ response.baseUrl = params.baseUrl
       /\ index = <<>>
       /\ nextId = 0
       /\ Adds = <<>>
  /\ response.kind = "completed" =>
       /\ response.totalUrls > 0
       /\ response.successRate \in 0..100

\* a seed page that was fetched and gave no candidate
C4_PageWithoutCandidates ==
  /\ pc = "done"
  /\ DiscoverySucceeded
  /\ urlsToProcess = <<>>
  /\ response.kind = "noUrls"

\* ------------------------------------------------------------------------
\* Properties of the RagService and of the search tools
\* ------------------------------------------------------------------------

\* C5: in addUrlDocument with extractContent, a failure of scraping is not
\* propagated: exactly one record is written, its content is the
\* metadata-only text (title, description or nothing, keywords joined by
\* spaces, one per line), and the new id is returned, so that a batch counts
\* the candidate as successful.
C5_ScrapeFailureFallsBackToMetadataContent ==
  ( /\ lastCall.op = "addUrlDocument"
    /\ lastCall.extractContent
    /\ ~lastCall.scrape.ok
    /\ lastCall.write.ok ) =>
    /\ ~lastCall.ret.threw
    /\ Len(lastCall.requests) = 1
    /\ lastCall.requests[1].kind = "add"
    /\ Len(index) = Len(lastCall.before) + 1
    /\ SubSeq(index, 1, Len(lastCall.before)) = lastCall.before
    /\ LET written == index[Len(index)]
           m == lastCall.metadata
       IN /\ written.id = lastCall.ret.value
          /\ \A i \in 1..Len(lastCall.before) : lastCall.before[i].id # written.id
          /\ written.document =
               m.title \o <<"\n">>
                 \o (IF m.description = UndefinedStr THEN <<>> ELSE m.description)
                 \o <<"\n">> \o Join(m.keywords, <<" ">>)
          /\ written.metadata.url = m.url

\* a direct addUrlDocument whose scrape failed and whose write went through
C5_ScrapeFailedAndRecordWritten ==
  /\ lastCall.op = "addUrlDocument"
  /\ lastCall.extractContent
  /\ ~lastCall.scrape.ok
  /\ lastCall.write.ok
  /\ ~lastCall.ret.threw
  /\ Len(index) = Len(lastCall.before) + 1

\* C6: when the write to the index fails, addUrlDocument throws that same
\* error and the index is as it was; query, deleteDocuments and
\* getDocumentCount likewise throw the index's error unchanged.
C6_IndexErrorsAreRethrownUnchanged ==
  /\ (lastCall.op = "addUrlDocument" /\ ~lastCall.write.ok) =>
       /\ lastCall.ret = [threw |-> TRUE, error |-> lastCall.write.error]
       /\ index = lastCall.before
  /\ ( /\ lastCall.op \in {"query", "deleteDocuments", "getDocumentCount"}
       /\ ~lastCall.outcome.ok ) =>
       /\ lastCall.ret = [threw |-> TRUE, error |-> lastCall.outcome.error]
       /\ index = lastCall.before

\* an addUrlDocument whose write was rejected, on an index that held a record
C6_WriteRejected ==
  /\ lastCall.op = "addUrlDocument"
  /\ ~lastCall.write.ok
  /\ lastCall.ret.threw
  /\ Len(lastCall.before) = 1

\* a where clause whose first condition is the docType condition
LeadsWithDocType(w) ==
  IF IsAndClause(w) THEN "docType" \in DOMAIN w["$and"][1]
  ELSE "docType" \in DOMAIN w

ReturnedDocTypes ==
  IF "payload" \in DOMAIN lastCall /\ "metadatas" \in DOMAIN lastCall.payload
  THEN { lastCall.payload.metadatas[i].docType
           : i \in 1..Len(lastCall.payload.metadatas) }
  ELSE {}

\* C7: every filtered query or get the tools issue carries the docType
\* condition as its leading condition, so that a search of URL documents never
\* returns a legacy document and a filtered legacy search never returns a URL
\* document.
C7_EveryFilteredQueryIsScopedByDocType ==
  /\ \A i \in 1..Len(lastCall.requests) :
       ( /\ lastCall.requests[i].kind \in {"query", "get"}
         /\ ~IsUndefinedObj(lastCall.requests[i].where) ) =>
         LeadsWithDocType(lastCall.requests[i].where)
  /\ lastCall.op \in {"searchDocumentation", "listDocumentation"} =>
       ReturnedDocTypes \subseteq {"url-document"}
  /\ ( /\ lastCall.op = "queryRagInformation"
       /\ ~IsUndefinedObj(lastCall.requests[1].where) ) =>
       ReturnedDocTypes \subseteq {"legacy-document"}

\* a version of s in another letter case
IsCaseVariantOf(s, t) ==
  /\ Len(s) = Len(t)
  /\ \A i \in 1..Len(s) : LowerChar(s[i]) = LowerChar(t[i])

\* C10: a search of URL documents is case-insensitive whatever the stored
\* case: a record stored with libraryName, version and category values is
\* returned by a search whose filter is built from any case variant of them,
\* whether the record was written by a batch or by a direct addUrlDocument.
C10_SearchMatchesAnyCaseVariant ==
  ( /\ lastCall.op = "searchDocumentation"
    /\ lastCall.args.searchType = "general"
    /\ lastCall.outcome.ok ) =>
    \A i \in 1..Len(lastCall.before) :
      LET stored == lastCall.before[i].metadata
          a == lastCall.args
      IN ( /\ stored.docType = "url-document"
           /\ \A f \in {"libraryName", "version", "category"} :
                Truthy(a[f]) => IsCaseVariantOf(a[f], stored[f]) ) =>
           \E k \in 1..Len(lastCall.payload.ids) :
             lastCall.payload.ids[k] = lastCall.before[i].id

\* ------------------------------------------------------------------------
\* Properties of the filter builder
\* ------------------------------------------------------------------------

\* the options that are supplied, in the order the builder takes them
Supplied(o) ==
  SelectSeq(<<"libraryName", "version", "category">>,
            LAMBDA f : o[f] # UndefinedStr /\ o[f] # <<>>)

\* the value the clause w holds for the i-th supplied option f
ClauseValue(w, i, f) == w["$and"][i + 1][f]

\* C8: with no option supplied the clause is the single condition
\* {docType: "url-document"}; otherwise it is an $and whose first condition
\* is that docType condition, followed by one condition per supplied option in
\* the order libraryName, version, category. An empty string counts as not
\* supplied.
C8_ClauseShape ==
  lastCall.op = "buildUrlDocumentWhere" =>
    LET o == lastCall.args
        w == lastCall.where
        fs == Supplied(o)
    IN IF fs = <<>>
       THEN DOMAIN w = {"docType"} /\ w.docType = "url-document"
       ELSE /\ DOMAIN w = {"$and"}
            /\ Len(w["$and"]) = Len(fs) + 1
            /\ DOMAIN w["$and"][1] = {"docType"}
            /\ w["$and"][1].docType = "url-document"
            /\ \A i \in 1..Len(fs) : DOMAIN w["$and"][i + 1] = {fs[i]}

\* a clause built from an empty libraryName and a supplied category
C8_EmptyLibraryNameWithCategory ==
  /\ lastCall.op = "buildUrlDocumentWhere"
  /\ lastCall.args.libraryName = <<>>
  /\ lastCall.args.version = UndefinedStr
  /\ lastCall.args.category # UndefinedStr /\ lastCall.args.category # <<>>
  /\ Len(lastCall.where["$and"]) = 2

UpperCaseLetters ==
  { "A", "B", "C", "D", "E", "F", "G", "H", "I", "J", "K", "L", "M", "N", "O",
    "P", "Q", "R", "S", "T", "U", "V", "W", "X", "Y", "Z" }

\* v is s in lower case
IsLowerCaseOf(v, s) ==
  /\ v = toLowerCase(s)
  /\ \A i \in 1..Len(v) : v[i] \notin UpperCaseLetters

Seg_documentation == <<"d", "o", "c", "u", "m", "e", "n", "t", "a", "t", "i", "o", "n">>

Seg_help == <<"h", "e", "l", "p">>

Seg_faq == <<"f", "a", "q">>

Seg_post == <<"p", "o", "s", "t">>

Seg_internal == <<"i", "n", "t", "e", "r", "n", "a", "l">>

BodyAnchor(path, text) == Anchor(PathHref(path), text, "body")

\* the anchors the pages given to the scraper are made of: those of the seed
\* pages, and anchors that stand directly in the body
ScraperAnchorPool ==
  AnchorPool \cup
  { BodyAnchor(<<Seg_documentation, Seg_intro>>, <<"I", "n", "t", "r", "o", "d", "u", "c", "t", "i", "o", "n">>),
    BodyAnchor(<<Seg_help, Seg_faq>>, <<"F", "A", "Q">>),
    BodyAnchor(<<Seg_blog, Seg_post>>, <<"P", "o", "s", "t">>),
    BodyAnchor(<<Seg_docs, Seg_guide>>, <<"G", "u", "i", "d", "e">>),
    BodyAnchor(<<Seg_internal>>, <<"I", "n", "t", "e", "r", "n", "a", "l">>),
    Anchor([kind |-> "path", path |-> <<Seg_docs, Seg_intro>>, hash |-> TRUE],
           <<"T", "o", "p">>, "main"),
    Anchor([kind |-> "invalid"], <<"B", "a", "d">>, "main") }

\* a page of five links in the main content
FiveLinkPage ==
  [ i \in 1..5 |->
      Anchor(PathHref(<<Seg_docs, <<"p", <<"1", "2", "3", "4", "5">>[i]>> >>),
             <<"P", <<"1", "2", "3", "4", "5">>[i]>>, "main") ]

ScraperPages == SeqsUpTo(ScraperAnchorPool, MaxAnchors) \cup { FiveLinkPage }

ScraperFetchOutcomes ==
  { [ok |-> TRUE, html |-> h] : h \in ScraperPages }
    \cup { [ok |-> FALSE, error |-> FetchError] }

ScraperUrls == { SeedUrl, FtpSeedUrl, MalformedSeedUrl }

NavThenMainSelectors == << "nav a[href]", "main a[href]" >>

\* the options of an extractUrls call: the names the caller supplied, and the
\* options object as parseUrls reads it
ExtractOptionSets ==
  { [given |-> {}, options |-> NoExtractOptions] }
  \cup { [given |-> {"includeExternal"},
          options |-> [NoExtractOptions EXCEPT !.includeExternal = e]]
           : e \in BOOLEAN }
  \cup { [given |-> {"maxUrls"},
          options |-> [NoExtractOptions EXCEPT !.maxUrls = k]] : k \in 0..3 }
  \cup { [given |-> {"includeExternal", "maxUrls"},
          options |-> [NoExtractOptions EXCEPT !.includeExternal = TRUE,
                                                !.maxUrls = 2]] }
  \cup { [given |-> {"urlSelectors"},
          options |-> [NoExtractOptions EXCEPT !.urlSelectors = NavThenMainSelectors]] }
  \cup { [given |-> {"filterPattern"},
          options |-> [NoExtractOptions EXCEPT !.filterPattern = "/\\/guide\\//i"]] }

CustomDocPathPattern == "/\\/(documentation|help)\\//"

\* the options of an extractDocumentationUrls call: the keys the caller gave
DocOptionSets ==
  { [none |-> TRUE] }
  \cup { [maxUrls |-> k] : k \in 0..3 }
  \cup { [docPathPattern |-> CustomDocPathPattern, maxUrls |-> 10] }

\* a call that fails before the page is read is tried with one answer of the
\* network only
OnePageSuffices(url, fetch) ==
  IF url = SeedUrl THEN TRUE ELSE IF fetch.ok THEN fetch.html = <<>> ELSE TRUE

\* a caller's scraperService.extractUrls(url, options)
CallExtractUrls ==
  /\ lastCall.op = "none"
  /\ \E url \in ScraperUrls, o \in ExtractOptionSets, fetch \in ScraperFetchOutcomes :
       /\ OnePageSuffices(url, fetch)
       /\ LET r == extractUrls(url, o.options, fetch)
          IN lastCall' = [ op |-> "extractUrls", url |-> url, given |-> o.given,
                           options |-> o.options, fetch |-> fetch,
                           requests |-> r.requests, ret |-> r.ret ]
  /\ UNCHANGED << index, nextId >>
  /\ UNCHANGED bulkVars
  /\ UNCHANGED concurrentVars

\* a caller's scraperService.extractDocumentationUrls(url, options)
CallExtractDocumentationUrls ==
  /\ lastCall.op = "none"
  /\ \E url \in ScraperUrls, o \in DocOptionSets, fetch \in ScraperFetchOutcomes :
       /\ OnePageSuffices(url, fetch)
       /\ LET r == extractDocumentationUrls(url, o, fetch)
          IN lastCall' = [ op |-> "extractDocumentationUrls", url |-> url,
                           options |-> o, fetch |-> fetch,
                           requests |-> r.requests, ret |-> r.ret ]
  /\ UNCHANGED << index, nextId >>
  /\ UNCHANGED bulkVars
  /\ UNCHANGED concurrentVars

\* ------------------------------------------------------------------------
\* Calls of the ScraperService that read the content of a page
\* ------------------------------------------------------------------------

MaxElements == 2

Element(selector, text) == [selector |-> selector, text |-> text, inside |-> "none"]

\* an element that stands inside another
ElementIn(selector, text, inside) ==
  [selector |-> selector, text |-> text, inside |-> inside]

\* a text long enough to be taken as the main content
LongText == [i \in 1..(MinContentLength + 5) |-> IF i % 7 = 0 THEN " " ELSE "x"]

\* a text of MinContentLength characters between two spaces
PaddedText ==
  [i \in 1..(MinContentLength + 2) |->
     IF i = 1 \/ i = MinContentLength + 2 THEN " " ELSE "z"]

\* a text one character longer than MinContentLength
ArticleText == [i \in 1..(MinContentLength + 1) |-> "y"]

\* the elements the pages read for their content are made of
ElementPool ==
  { Element("title", <<" ", "G", "u", "i", "d", "e", " ">>),
    Element("title", <<" ">>),
    Element("title", <<"P", "r", "i", "v", "a", "c", "y", " ", "P", "o", "l", "i", "c", "y">>),
    Element("h1", <<"I", "n", "t", "r", "o", " ", " ", "N", "e", "x", "t", " ", "→">>),
    Element(".title", <<"T", "o", "p">>),
    Element("header", <<"S", "i", "t", "e">>),
    Element("main", LongText),
    Element("main", PaddedText),
    Element("article", ArticleText),
    Element("img", <<>>),
    ElementIn("img", <<>>, "nav"),
    ElementIn("a", <<"M", "e", "n", "u">>, "footer"),
    ElementIn("h1", <<"L", "o", "g", "o">>, "header"),
    Element("a", <<"M", "o", "r", "e">>) }

\* a page of noise alone: a heading inside the header, an image inside the
\* navigation and a link inside the footer
NoisePage ==
  << ElementIn("h1", <<"L", "o", "g", "o">>, "header"),
     ElementIn("img", <<>>, "nav"),
     ElementIn("a", <<"M", "e", "n", "u">>, "footer") >>

\* a page whose title is blank and whose heading is noise
LateTitlePage ==
  << Element("title", <<" ">>),
     ElementIn("h1", <<"L", "o", "g", "o">>, "header"),
     Element(".title", <<"T", "o", "p">>) >>

\* a page with its text in the header, in a short main element and in a
\* long one
TwoMainsPage ==
  << Element("header", <<"S", "i", "t", "e">>),
     Element("main", PaddedText),
     Element("main", LongText) >>

Documents ==
  SeqsUpTo(ElementPool, MaxElements) \cup {NoisePage, LateTitlePage, TwoMainsPage}

DocumentFetchOutcomes ==
  { [ok |-> TRUE, html |-> d] : d \in Documents }
    \cup { [ok |-> FALSE, error |-> FetchError] }

HeadOutcomes ==
  { [ok |-> TRUE, contentType |-> t]
      : t \in { <<"t", "e", "x", "t", "/", "h", "t", "m", "l", ";", " ", "c", "h", "a", "r", "s", "e", "t", "=", "u", "t", "f", "-", "8">>, <<"a", "p", "p", "l", "i", "c", "a", "t", "i", "o", "n", "/", "p", "d", "f">>, UndefinedStr } }
    \cup { [ok |-> FALSE, error |-> Error("Not found")] }

\* a caller's scraperService.scrapeUrl(url)
CallScrapeUrl ==
  /\ lastCall.op = "none"
  /\ \E url \in ScraperUrls, fetch \in DocumentFetchOutcomes :
       /\ OnePageSuffices(url, fetch)
       /\ LET r == scrapeUrl(url, fetch)
          IN lastCall' = [ op |-> "scrapeUrl", url |-> url, fetch |-> fetch,
                           requests |-> r.requests, ret |-> r.ret ]
  /\ UNCHANGED << index, nextId >>
  /\ UNCHANGED bulkVars
  /\ UNCHANGED concurrentVars

\* a caller's scraperService.isScrapeable(url)
CallIsScrapeable ==
  /\ lastCall.op = "none"
  /\ \E url \in ScraperUrls, head \in HeadOutcomes :
       LET r == isScrapeable(url, head)
       IN lastCall' = [ op |-> "isScrapeable", url |-> url, head |-> head,
                        requests |-> r.requests, ret |-> r.ret ]
  /\ UNCHANGED << index, nextId >>
  /\ UNCHANGED bulkVars
  /\ UNCHANGED concurrentVars

NextScraper ==
  \/ CallExtractUrls
  \/ CallExtractDocumentationUrls
  \/ CallScrapeUrl
  \/ CallIsScrapeable

SpecScraper == Init /\ [][NextScraper]_vars

\* ------------------------------------------------------------------------
\* Properties of link extraction
\* ------------------------------------------------------------------------

\* a link-extraction call that returned a result
LinksReturned ==
  /\ lastCall.op \in {"extractUrls", "extractDocumentationUrls"}
  /\ ~lastCall.ret.threw

\* the selectors the call went through, in order
SelectorsUsed ==
  IF lastCall.op = "extractDocumentationUrls"
  THEN << "a[href*=\"/docs\"]", "nav a[href]", ".sidebar a[href]", ".toc a[href]",
          ".menu a[href]", "main a[href]" >>
  ELSE IF lastCall.options.urlSelectors = <<>> THEN << "a[href]" >>
  ELSE lastCall.options.urlSelectors

\* the positions in the page of the anchors that the selector matches and
\* that resolve to the URL u
AnchorsFor(selector, u) ==
  { n \in 1..Len(lastCall.fetch.html) :
      /\ SelectorMatches(selector, lastCall.fetch.html[n])
      /\ Resolves(lastCall.fetch.html[n].href)
      /\ Resolve(lastCall.fetch.html[n].href, lastCall.url) = u }

\* the first anchor encountered that resolves to u: the first selector that
\* has one, and under it the first in document order
FirstAnchorFor(u) ==
  LET first == CHOOSE si \in 1..Len(SelectorsUsed) :
                 /\ AnchorsFor(SelectorsUsed[si], u) # {}
                 /\ \A sj \in 1..(si - 1) : AnchorsFor(SelectorsUsed[sj], u) = {}
      n == CHOOSE n \in AnchorsFor(SelectorsUsed[first], u) :
             \A m \in AnchorsFor(SelectorsUsed[first], u) : n <= m
  IN lastCall.fetch.html[n]

\* C11: the result of one link-extraction call holds no two entries with the
\* same absolute URL; of several anchors that resolve to the same URL exactly
\* one entry is kept, and it is that of the first anchor encountered, by
\* selector order and then by document order.
C11_UniqueUrlsFirstAnchorKept ==
  LinksReturned =>
    LET urls == lastCall.ret.value.extractedUrls
    IN /\ \A i, j \in 1..Len(urls) : i # j => urls[i].url # urls[j].url
       /\ \A k \in 1..Len(urls) :
            /\ \E si \in 1..Len(SelectorsUsed) : AnchorsFor(SelectorsUsed[si], urls[k].url) # {}
            /\ urls[k].text = Trim(FirstAnchorFor(urls[k].url).text)
            /\ urls[k].title = FirstAnchorFor(urls[k].url).title
       /\ (lastCall.op = "extractUrls" /\ lastCall.given \subseteq {"urlSelectors"}) =>
            \A si \in 1..Len(SelectorsUsed), n \in 1..Len(lastCall.fetch.html) :
              LET a == lastCall.fetch.html[n]
              IN ( /\ SelectorMatches(SelectorsUsed[si], a)
                   /\ Resolves(a.href)
                   /\ Resolve(a.href, lastCall.url).host = lastCall.url.host ) =>
                   Cardinality({ k \in 1..Len(urls) :
                                   urls[k].url = Resolve(a.href, lastCall.url) }) = 1

\* a page whose first anchor, in the main content, and second anchor, in the
\* navigation, resolve to the same URL, read with the navigation selector
\* first: the one entry kept is the navigation's
C11_LaterAnchorUnderEarlierSelector ==
  /\ lastCall.op = "extractUrls"
  /\ ~lastCall.ret.threw
  /\ lastCall.options.urlSelectors = << "nav a[href]", "main a[href]" >>
  /\ Len(lastCall.fetch.html) = 2
  /\ lastCall.fetch.html[1].container = "main"
  /\ lastCall.fetch.html[2].container = "nav"
  /\ Resolves(lastCall.fetch.html[1].href) /\ Resolves(lastCall.fetch.html[2].href)
  /\ Resolve(lastCall.fetch.html[1].href, lastCall.url)
       = Resolve(lastCall.fetch.html[2].href, lastCall.url)
  /\ Len(lastCall.ret.value.extractedUrls) = 1
  /\ lastCall.ret.value.extractedUrls[1].text = <<"G", "o">>

\* the URLs the anchors of the page resolve to
ResolvedUrls ==
  { Resolve(lastCall.fetch.html[n].href, lastCall.url) :
      n \in { m \in 1..Len(lastCall.fetch.html) : Resolves(lastCall.fetch.html[m].href) } }

ReturnedUrls ==
  { lastCall.ret.value.extractedUrls[k].url
      : k \in 1..Len(lastCall.ret.value.extractedUrls) }

\* C12: with includeExternal false or omitted every URL returned has the
\* host of the base URL, and an anchor to a path of the same host is returned
\* resolved against the base; with includeExternal true the anchors to other
\* hosts are returned as well.
C12_ExternalLinksOnlyOnRequest ==
  /\ (LinksReturned /\ lastCall.op = "extractDocumentationUrls") =>
       \A u \in ReturnedUrls : u.host = lastCall.url.host
  /\ (LinksReturned /\ lastCall.op = "extractUrls") =>
       /\ ~lastCall.options.includeExternal =>
            \A u \in ReturnedUrls : u.host = lastCall.url.host
       /\ lastCall.given \subseteq {"includeExternal"} =>
            \A u \in ResolvedUrls :
              IF u.host = lastCall.url.host \/ lastCall.options.includeExternal
              THEN u \in ReturnedUrls
              ELSE u \notin ReturnedUrls

\* a page with an anchor to /internal and an anchor to another host, read
\* with includeExternal true: both are returned
C12_ExternalIncluded ==
  /\ lastCall.op = "extractUrls"
  /\ ~lastCall.ret.threw
  /\ lastCall.given = {"includeExternal"}
  /\ lastCall.options.includeExternal
  /\ Len(lastCall.fetch.html) = 2
  /\ \E u \in ReturnedUrls : u.host = "external.com"
  /\ \E u \in ReturnedUrls :
       u.host = lastCall.url.host /\ u.path = <<<<"i", "n", "t", "e", "r", "n", "a", "l">>>>

\* the URLs of the page that pass the host test of the call
QualifyingUrls ==
  { u \in ResolvedUrls : lastCall.options.includeExternal \/ u.host = lastCall.url.host }

\* the position in the page of the first anchor that resolves to u
FirstPositionOf(u) ==
  CHOOSE n \in 1..Len(lastCall.fetch.html) :
    /\ Resolves(lastCall.fetch.html[n].href)
    /\ Resolve(lastCall.fetch.html[n].href, lastCall.url) = u
    /\ \A m \in 1..(n - 1) :
         Resolves(lastCall.fetch.html[m].href) =>
           Resolve(lastCall.fetch.html[m].href, lastCall.url) # u

\* the list returned is the first `cap` entries of the deduplicated list of
\* the `found` URLs, and totalFound is the count before truncation
IsPrefixOfFound(found, cap) ==
  LET urls == lastCall.ret.value.extractedUrls
  IN /\ lastCall.ret.value.totalFound = Cardinality(found)
     /\ Len(urls) = (IF cap < Cardinality(found) THEN cap ELSE Cardinality(found))
     /\ ReturnedUrls \subseteq found
     /\ \A i, j \in 1..Len(urls) :
          i < j => FirstPositionOf(urls[i].url) < FirstPositionOf(urls[j].url)
     /\ \A u \in found \ ReturnedUrls, r \in ReturnedUrls :
          FirstPositionOf(r) < FirstPositionOf(u)

\* C13: for extractUrls with a maxUrls cap supplied, any non-negative
\* integer, the list returned is the prefix of length min(maxUrls,
\* totalFound) of the deduplicated, filtered list of links, and totalFound is
\* the count before truncation.
C13_CapGivesPrefixAndTotalFound ==
  ( /\ LinksReturned
    /\ lastCall.op = "extractUrls"
    /\ "maxUrls" \in lastCall.given ) =>
    IsPrefixOfFound(QualifyingUrls, lastCall.options.maxUrls)

\* the inclusion pattern of the extractDocumentationUrls call
InclusionPattern ==
  IF "docPathPattern" \in DOMAIN lastCall.options
  THEN lastCall.options.docPathPattern ELSE "/\\/docs?\\//i"

\* the URL matches one of the default exclusion patterns
Excluded(u) ==
  \E pattern \in { "/\\.(pdf|zip|tar\\.gz|exe|dmg)$/i", "/#/", "/\\/api\\//i",
                   "/\\/changelog/i", "/\\/blog/i" } : TestPattern(pattern, u)

\* the URLs of the anchors that one of the documentation selectors reaches
ReachedUrls ==
  { u \in ResolvedUrls :
      \E si \in 1..Len(SelectorsUsed) : AnchorsFor(SelectorsUsed[si], u) # {} }

\* the URLs of the page that pass the inclusion and exclusion rules of
\* extractDocumentationUrls
DocQualifyingUrls ==
  { u \in ReachedUrls :
      /\ u.host = lastCall.url.host
      /\ TestPattern(InclusionPattern, u)
      /\ ~Excluded(u) }

\* C14: for extractDocumentationUrls, totalFound is the count after exclusion
\* and before truncation: five anchors that pass the inclusion and exclusion
\* rules with maxUrls = 3 give three URLs and totalFound = 5.
C14_DocTotalFoundIsBeforeTruncation ==
  ( /\ LinksReturned
    /\ lastCall.op = "extractDocumentationUrls"
    /\ "maxUrls" \in DOMAIN lastCall.options
    /\ lastCall.options.maxUrls > 0 ) =>
    /\ lastCall.ret.value.totalFound = Cardinality(DocQualifyingUrls)
    /\ Len(lastCall.ret.value.extractedUrls)
         = (IF lastCall.options.maxUrls < Cardinality(DocQualifyingUrls)
            THEN lastCall.options.maxUrls ELSE Cardinality(DocQualifyingUrls))

\* the path has a docs or doc segment, in any letter case, followed by a slash
HasDocsSegment(u) ==
  \E i \in 1..(Len(u.path) - 1) :
    toLowerCase(u.path[i]) \in { <<"d", "o", "c", "s">>, <<"d", "o", "c">> }

\* C15: every URL that extractDocumentationUrls returns on default settings
\* matches the inclusion pattern, matches no exclusion pattern and has the
\* host of the base URL; of the anchors /docs/intro, /docs/changelog and
\* /blog/post only /docs/intro is returned.
C15_DefaultDocumentationFilter ==
  ( /\ LinksReturned
    /\ lastCall.op = "extractDocumentationUrls"
    /\ "none" \in DOMAIN lastCall.options ) =>
    /\ \A u \in ReturnedUrls :
         /\ HasDocsSegment(u)
         /\ ~Excluded(u)
         /\ u.host = lastCall.url.host
    /\ ResolvedUrls = { Url("example.com", <<Seg_docs, Seg_intro>>),
                        Url("example.com", <<Seg_docs, Seg_changelog>>),
                        Url("example.com", <<Seg_blog, Seg_post>>) } =>
         ReturnedUrls = { Url("example.com", <<Seg_docs, Seg_intro>>) }

\* the page of the three anchors /docs/intro, /docs/changelog and /blog/post,
\* read on default settings
C15_IntroChangelogBlog ==
  /\ LinksReturned
  /\ lastCall.op = "extractDocumentationUrls"
  /\ "none" \in DOMAIN lastCall.options
  /\ Len(lastCall.fetch.html) = 3
  /\ \A n \in 1..3 : Resolves(lastCall.fetch.html[n].href)
  /\ ResolvedUrls = { Url("example.com", <<Seg_docs, Seg_intro>>),
                      Url("example.com", <<Seg_docs, Seg_changelog>>),
                      Url("example.com", <<Seg_blog, Seg_post>>) }
  /\ Len(lastCall.ret.value.extractedUrls) = 1

\* C16: a docPathPattern supplied by the caller replaces the default
\* inclusion pattern: extractDocumentationUrls returns every anchor of the
\* page on the base host whose URL matches the supplied pattern and no
\* exclusion pattern, and no anchor that matches the default pattern only.
C16_CustomPatternReplacesDefault ==
  ( /\ LinksReturned
    /\ lastCall.op = "extractDocumentationUrls"
    /\ "docPathPattern" \in DOMAIN lastCall.options ) =>
    ReturnedUrls =
      { u \in ResolvedUrls :
          /\ u.host = lastCall.url.host
          /\ TestPattern(lastCall.options.docPathPattern, u)
          /\ ~Excluded(u) }

\* ------------------------------------------------------------------------
\* Properties of the calls on a URL that is not valid
\* ------------------------------------------------------------------------

\* the URL of the last call does not parse, or is not an http(s) URL
UrlRejected ==
  \/ lastCall.url.scheme = ""
  \/ lastCall.url.scheme \notin {"http", "https"}

\* C17: scrapeUrl, extractUrls and extractDocumentationUrls called with a
\* URL that does not parse or whose scheme is neither http nor https fail
\* with an error "Invalid URL: <url>" that names the URL, the message of the
\* failure carries it, and no request is issued.
C17_InvalidUrlFailsWithoutRequest ==
  ( /\ lastCall.op \in {"scrapeUrl", "extractUrls", "extractDocumentationUrls"}
    /\ UrlRejected ) =>
    /\ lastCall.ret.threw
    /\ lastCall.ret.error.message.cause
         = [text |-> "Invalid URL: ", url |-> lastCall.url, cause |-> NoCause]
    /\ lastCall.requests = <<>>

\* an ftp URL given to each of the three operations
C17_FtpUrlRejected ==
  /\ lastCall.op \in {"scrapeUrl", "extractUrls", "extractDocumentationUrls"}
  /\ lastCall.url.scheme = "ftp"
  /\ lastCall.ret.threw
  /\ lastCall.requests = <<>>

\* the content-type header of the answer names HTML
ContentTypeIsHtml ==
  /\ lastCall.head.ok
  /\ lastCall.head.contentType # UndefinedStr
  /\ \E i \in 1..Len(lastCall.head.contentType) :
       /\ i + 8 <= Len(lastCall.head.contentType)
       /\ \A k \in 0..8 : lastCall.head.contentType[i + k] = TextHtml[k + 1]

\* C18: isScrapeable never throws; it returns true only when the HEAD
\* request succeeds and the content-type of the answer names HTML; it
\* returns false when the request fails; it returns false and issues no
\* request when the URL does not parse or is not an http(s) URL.
C18_IsScrapeableNeverThrows ==
  lastCall.op = "isScrapeable" =>
    /\ ~lastCall.ret.threw
    /\ lastCall.ret.value \in BOOLEAN
    /\ lastCall.ret.value => (~UrlRejected /\ ContentTypeIsHtml)
    /\ ~lastCall.head.ok => ~lastCall.ret.value
    /\ UrlRejected => (~lastCall.ret.value /\ lastCall.requests = <<>>)
    /\ ~UrlRejected => lastCall.requests = <<lastCall.url>>

\* the HEAD request of a valid URL fails and the answer is false
C18_HeadFailureGivesFalse ==
  /\ lastCall.op = "isScrapeable"
  /\ ~UrlRejected
  /\ ~lastCall.head.ok
  /\ lastCall.requests = <<lastCall.url>>
  /\ lastCall.ret = Returned(FALSE)

\* ------------------------------------------------------------------------
\* Properties of the content of a page
\* ------------------------------------------------------------------------

PageScraped == lastCall.op = "scrapeUrl" /\ ~lastCall.ret.threw

\* the element is on the list of noise, or stands inside one that is
IsNoise(e) ==
  \/ e.selector \in { "nav", "header", "footer", "aside", ".sidebar", ".menu",
                      ".navigation", ".breadcrumb", ".comments", ".social-share",
                      "script", "style", ".ad", ".advertisement", ".popup" }
  \/ e.inside \in { "nav", "header", "footer", "aside", ".sidebar", ".menu",
                    ".navigation", ".breadcrumb", ".comments", ".social-share",
                    "script", "style", ".ad", ".advertisement", ".popup" }

\* the positions in the page of the elements a title selector matches
TitleElements(selector) ==
  { n \in 1..Len(lastCall.fetch.html) :
      lastCall.fetch.html[n].selector = selector /\ ~IsNoise(lastCall.fetch.html[n]) }

\* the text of the first element the selector matches, trimmed
FirstTitleText(selector) ==
  Trim(lastCall.fetch.html[CHOOSE n \in TitleElements(selector) :
                             \A m \in TitleElements(selector) : n <= m].text)

\* the title selectors, by priority, whose first element has text
SelectorsWithText ==
  { k \in 1..Len(TitleSelectors) :
      /\ TitleElements(TitleSelectors[k]) # {}
      /\ FirstTitleText(TitleSelectors[k]) # <<>> }

\* the title is 'Untitled' when no title selector has text, and the cleaned
\* text of the first selector that has text otherwise
TitleChosenByPriority ==
  PageScraped =>
    IF SelectorsWithText = {}
    THEN lastCall.ret.value.title = Untitled
    ELSE LET k == CHOOSE c \in SelectorsWithText : \A d \in SelectorsWithText : c <= d
         IN lastCall.ret.value.title = cleanText(FirstTitleText(TitleSelectors[k]))

\* C20: the title of a scraped page is 'Untitled' when no title selector
\* (title, then h1, then the title classes) has non-empty trimmed text, is
\* the cleaned text of the first selector by priority that has text
\* otherwise, and is never the empty string.
C20_TitleChosenAndNonEmpty ==
  /\ TitleChosenByPriority
  /\ PageScraped => lastCall.ret.value.title # <<>>

\* ------------------------------------------------------------------------
\* cleanText on its own
\* ------------------------------------------------------------------------

MaxPieces == 3

\* the pieces the texts are made of
TextPieces ==
  { <<"a">>, <<" ">>, <<"\n">>, <<" ", "N", "e", "x", "t", " ", "→", " ">>,
    <<"N", "e", "x", "t", "→">>, <<"N", "e">>, <<"x", "t", "→">>,
    <<".", ".">>, <<"!">>, <<"?", "?">>,
    <<"C", "o", "p", "y", " ", "l", "i", "n", "k">> }

\* the pieces of a sequence of pieces, joined
RECURSIVE JoinPieces(_)
JoinPieces(pieces) ==
  IF pieces = <<>> THEN <<>> ELSE Head(pieces) \o JoinPieces(Tail(pieces))

Texts == { JoinPieces(pieces) : pieces \in SeqsUpTo(TextPieces, MaxPieces) }

\* cleanText(text), and cleanText of what it returned
CallCleanText ==
  /\ lastCall.op = "none"
  /\ \E text \in Texts :
       LET cleaned == cleanText(text)
       IN lastCall' = [ op |-> "cleanText", text |-> text, ret |-> cleaned,
                        again |-> cleanText(cleaned) ]
  /\ UNCHANGED << index, nextId >>
  /\ UNCHANGED bulkVars
  /\ UNCHANGED concurrentVars

NextText == CallCleanText

SpecText == Init /\ [][NextText]_vars

\* C19: cleanText is idempotent: cleaning a text that cleanText returned
\* gives the same text.
C19_CleanTextIdempotent ==
  lastCall.op = "cleanText" => lastCall.again = lastCall.ret

\* ------------------------------------------------------------------------
\* Properties of the main content of a page
\* ------------------------------------------------------------------------

\* the positions in the page of the elements a content selector matches
ContentElements(selector) ==
  { n \in 1..Len(lastCall.fetch.html) :
      lastCall.fetch.html[n].selector = selector /\ ~IsNoise(lastCall.fetch.html[n]) }

\* the text of the first element the selector matches
FirstContentText(selector) ==
  lastCall.fetch.html[CHOOSE n \in ContentElements(selector) :
                        \A m \in ContentElements(selector) : n <= m].text

\* the containers, by priority, whose text is longer than 100 characters
ContainersLongEnough ==
  { k \in 1..(Len(ContentSelectors) - 1) :
      /\ ContentElements(ContentSelectors[k]) # {}
      /\ Len(Trim(FirstContentText(ContentSelectors[k]))) > 100 }

\* the text of the body of the page: of all its elements but the title and
\* the ignored ones
RECURSIVE BodyTextFrom(_)
BodyTextFrom(n) ==
  IF n > Len(lastCall.fetch.html) THEN <<>>
  ELSE (IF IsNoise(lastCall.fetch.html[n]) \/ lastCall.fetch.html[n].selector = "title"
        THEN <<>> ELSE lastCall.fetch.html[n].text) \o BodyTextFrom(n + 1)

\* C21: the content of a scraped page is the cleaned text of the first
\* content container by priority whose text is longer than 100 characters,
\* and the cleaned text of the whole body when no container is; a container
\* of 100 characters or fewer is never the one chosen.
C21_FirstLongContainerElseBody ==
  PageScraped =>
    IF ContainersLongEnough = {}
    THEN lastCall.ret.value.content = cleanText(BodyTextFrom(1))
    ELSE LET k == CHOOSE c \in ContainersLongEnough :
                    \A d \in ContainersLongEnough : c <= d
         IN lastCall.ret.value.content = cleanText(FirstContentText(ContentSelectors[k]))

\* a page whose main element is too short and stands before its article: the
\* content is the text of the article
C21_ShortMainLongArticle ==
  /\ PageScraped
  /\ Len(lastCall.fetch.html) = 2
  /\ lastCall.fetch.html[1] = Element("main", PaddedText)
  /\ lastCall.fetch.html[2] = Element("article", ArticleText)
  /\ lastCall.ret.value.content = ArticleText

\* ------------------------------------------------------------------------
\* scrapeMultipleUrls, promise by promise
\* ------------------------------------------------------------------------

MaxUrlsPerCall == 3

Seg_page1 == <<"p", "a", "g", "e", "1">>

Seg_page2 == <<"p", "a", "g", "e", "2">>

MultiUrls ==
  { Url("example.com", <<Seg_page1>>), Url("example.com", <<Seg_page2>>), FtpSeedUrl }

MultiFetchOutcomes ==
  { [ok |-> TRUE, html |-> << Element("title", <<"P", "a", "g", "e">>),
                             Element("main", <<"B", "o", "d", "y">>) >>],
    [ok |-> TRUE, html |-> << Element("h1", <<"T", "o", "p">>) >>],
    [ok |-> FALSE, error |-> Error("Network error")] }

\* scrapeMultipleUrls(urls) is called: every scrapeUrl runs up to its request
MultiStart ==
  /\ multi.pc = "idle"
  /\ \E urls \in SeqsUpTo(MultiUrls, MaxUrlsPerCall) :
       multi' = [ pc |-> "waiting", urls |-> urls,
                  results |-> StartedScrapes(urls),
                  requests |-> StartedRequests(urls),
                  answered |-> <<>> ]
  /\ UNCHANGED << index, nextId, writers >>
  /\ UNCHANGED serviceVars
  /\ UNCHANGED bulkVars

\* one of the requests in flight is answered and its scrapeUrl settles
MultiSettle ==
  /\ multi.pc = "waiting"
  /\ \E i \in 1..Len(multi.urls), fetch \in MultiFetchOutcomes :
       /\ multi.results[i].status = "pending"
       /\ multi' = [ multi EXCEPT
                       !.results[i] = SettledScrape(multi.urls[i], fetch),
                       !.answered = Append(@, i) ]
  /\ UNCHANGED << index, nextId, writers >>
  /\ UNCHANGED serviceVars
  /\ UNCHANGED bulkVars

\* Promise.allSettled resolves and scrapeMultipleUrls returns
MultiReturn ==
  /\ multi.pc = "waiting"
  /\ \A i \in 1..Len(multi.urls) : multi.results[i].status # "pending"
  /\ multi' = [ pc |-> "done", urls |-> multi.urls, results |-> multi.results,
                requests |-> multi.requests, answered |-> multi.answered,
                ret |-> CollectResults(multi.results) ]
  /\ UNCHANGED << index, nextId, writers >>
  /\ UNCHANGED serviceVars
  /\ UNCHANGED bulkVars

NextMulti ==
  \/ MultiStart
  \/ MultiSettle
  \/ MultiReturn

SpecMulti == Init /\ [][NextMulti]_vars

\* the positions of the input list whose scrape succeeded, in order
SucceededPositions ==
  SelectSeq([i \in 1..Len(multi.urls) |-> i],
            LAMBDA i : multi.results[i].status = "fulfilled")

\* C22: scrapeMultipleUrls never throws and returns the ScrapedContent of
\* exactly the input URLs whose scrape succeeded, in the order of the input
\* list whatever the order in which the fetches were answered; the URLs that
\* failed are left out, and the list is empty when all failed.
C22_SuccessesInInputOrder ==
  multi.pc = "done" =>
    /\ ~multi.ret.threw
    /\ Len(multi.ret.value) = Len(SucceededPositions)
    /\ \A k \in 1..Len(SucceededPositions) :
         /\ multi.ret.value[k] = multi.results[SucceededPositions[k]].value
         /\ multi.ret.value[k].url = multi.urls[SucceededPositions[k]]
    /\ (\A i \in 1..Len(multi.urls) : multi.results[i].status = "rejected")
         => multi.ret.value = <<>>

\* three URLs of which the last was answered first and the second failed
C22_AnsweredInReverse ==
  /\ multi.pc = "done"
  /\ Len(multi.urls) = 3
  /\ multi.answered = <<3, 1>>
  /\ multi.results[2].status = "rejected"
  /\ Len(multi.ret.value) = 2
  /\ multi.ret.value[1].url = multi.urls[1]
  /\ multi.ret.value[2].url = multi.urls[3]
  /\ multi.urls[1] # multi.urls[3]

\* ------------------------------------------------------------------------
\* Properties of the loop of the bulk-add-urls handler in time
\* ------------------------------------------------------------------------

\* the number of candidates recorded so far, as successful or as failed
Recorded == Len(results.successful) + Len(results.failed)

\* the requests of the loop answered so far: content fetches and index writes
LoopRequests == SelectSeq(log, LAMBDA e : e.op \in {"scrape", "add"})

\* the position in urlsToProcess of the candidate a request of the loop is for
CandidateOf(e) == CHOOSE k \in 1..Len(urlsToProcess) : urlsToProcess[k].url = e.url

\* C24: the candidates of a batch are processed one after the other: while
\* the content fetch or the index write of a candidate is in flight every
\* candidate before it has been recorded as successful or failed and no
\* candidate after it has had any request issued, and the requests of the
\* loop follow the order of the candidates.
C24_CandidatesStrictlySequential ==
  /\ pc \in {"scrape", "write"} =>
       /\ Recorded = cursor - 1
       /\ \A i \in 1..Len(LoopRequests) : CandidateOf(LoopRequests[i]) <= cursor
       /\ Len(Adds) = cursor - 1
  /\ pc = "delay" => Recorded = cursor
  /\ \A i, j \in 1..Len(LoopRequests) :
       i < j => CandidateOf(LoopRequests[i]) <= CandidateOf(LoopRequests[j])

\* the index write of the third candidate is in flight after the first
\* candidate failed and the second was added
C24_ThirdInFlightAfterTwoRecorded ==
  /\ pc = "write"
  /\ cursor = 3
  /\ params.extractContent
  /\ Len(results.failed) = 1
  /\ Len(results.successful) = 1
  /\ Len(LoopRequests) = 5

\* C25: between the processing of two consecutive candidates the handler
\* waits the fixed delay before it issues the requests of the later one,
\* whether the earlier one succeeded or failed.
C25_DelayBetweenCandidates ==
  \A i \in 1..(Len(log) - 1) :
    log[i].op = "add" => log[i + 1] = [op |-> "delay", ms |-> 100]

\* the delay follows every candidate that was added
DelayAfterSuccess ==
  \A i \in 1..(Len(log) - 1) :
    (log[i].op = "add" /\ log[i].write.ok) => log[i + 1] = [op |-> "delay", ms |-> 100]

\* ------------------------------------------------------------------------
\* Orchestrations that index URLs side by side
\* ------------------------------------------------------------------------

MaxCallsEach == 2

\* an orchestration calls ragService.addUrlDocument: the identifier is drawn
\* and the call runs up to its first await
WriterCall(w) ==
  /\ writers[w].pc = "idle"
  /\ writers[w].calls < MaxCallsEach
  /\ \E m \in UrlDocInputs, extractContent \in BOOLEAN :
       writers' = [ writers EXCEPT ![w] =
                      [ pc |-> IF extractContent THEN "scraping" ELSE "writing",
                        calls |-> writers[w].calls + 1,
                        added |-> writers[w].added,
                        docId |-> nextId, metadata |-> m,
                        extractContent |-> extractContent,
                        scrape |-> NotScraped ] ]
  /\ nextId' = nextId + 1
  /\ UNCHANGED << index, multi >>
  /\ UNCHANGED serviceVars
  /\ UNCHANGED bulkVars

\* scrapeUrl of the call in progress is answered
WriterScraped(w) ==
  /\ writers[w].pc = "scraping"
  /\ \E outcome \in ScrapeOutcomes :
       writers' = [ writers EXCEPT ![w].pc = "writing", ![w].scrape = outcome ]
  /\ UNCHANGED << index, nextId, multi >>
  /\ UNCHANGED serviceVars
  /\ UNCHANGED bulkVars

\* chroma.addItems of the call in progress is answered and the call ends
WriterWritten(w) ==
  /\ writers[w].pc = "writing"
  /\ \E write \in IndexOutcomes :
       LET r == addUrlDocument(index, writers[w].docId, writers[w].metadata,
                               writers[w].extractContent, writers[w].scrape, write)
       IN /\ index' = r.index
          /\ writers' = [ writers EXCEPT
                            ![w].pc = "idle",
                            ![w].added = IF r.ret.threw THEN @
                                         ELSE Append(@, [ id |-> r.ret.value,
                                                          url |-> writers[w].metadata.url ]) ]
  /\ UNCHANGED << nextId, multi >>
  /\ UNCHANGED serviceVars
  /\ UNCHANGED bulkVars

NextWriters ==
  \E w \in Writers :
    \/ WriterCall(w)
    \/ WriterScraped(w)
    \/ WriterWritten(w)

SpecWriters == Init /\ [][NextWriters]_vars

\* idx is the beginning of idx2
IsPrefix(idx, idx2) ==
  Len(idx) <= Len(idx2) /\ SubSeq(idx2, 1, Len(idx)) = idx

\* every call that returned has its record, under the identifier it returned
EveryAddHasItsRecord ==
  /\ \A w \in Writers : \A k \in 1..Len(writers[w].added) :
       \E i \in 1..Len(index) :
         /\ index[i].id = writers[w].added[k].id
         /\ index[i].metadata.url = writers[w].added[k].url
  /\ Len(index) = Len(writers["first"].added) + Len(writers["second"].added)
  /\ \A i, j \in 1..Len(index) : i # j => index[i].id # index[j].id

\* C23: every index write is an append under a fresh identifier: indexing
\* the same URL twice, one call after the other or by two orchestrations in
\* any interleaving, gives two distinct records, and no write overwrites,
\* alters or removes a record written earlier.
C23_WritesAppendFreshRecords ==
  /\ [](EveryAddHasItsRecord)
  /\ [][IsPrefix(index, index')]_vars

\* the two orchestrations were indexing the same URL at the same time, the
\* later call was written first, and the index holds both records
C23_SameUrlTwiceSideBySide ==
  /\ Len(index) = 2
  /\ index[1].metadata.url = index[2].metadata.url
  /\ index[1].id # index[2].id
  /\ index[1].id > index[2].id
  /\ Len(writers["first"].added) = 1
  /\ Len(writers["second"].added) = 1

\* ------------------------------------------------------------------------
\* Properties of the removal of noise
\* ------------------------------------------------------------------------

\* the text of the elements of the page that are not noise, one after another
RECURSIVE KeptTextFrom(_)
KeptTextFrom(n) ==
  IF n > Len(lastCall.fetch.html) THEN <<>>
  ELSE (IF IsNoise(lastCall.fetch.html[n]) THEN <<>> ELSE lastCall.fetch.html[n].text)
         \o <<"|">> \o KeptTextFrom(n + 1)

\* the page has an element of the kind that is not noise
HasKept(selector) ==
  \E n \in 1..Len(lastCall.fetch.html) :
    lastCall.fetch.html[n].selector = selector /\ ~IsNoise(lastCall.fetch.html[n])

\* C26: the elements on the list of noise are removed before the title, the
\* content, hasImages and hasLinks are derived: a text that occurs only
\* inside such an element occurs neither in the title nor in the content,
\* and the images and links inside such elements alone make neither
\* hasImages nor hasLinks true.
C26_NoiseRemovedBeforeExtraction ==
  PageScraped =>
    /\ \A n \in 1..Len(lastCall.fetch.html) :
         ( /\ IsNoise(lastCall.fetch.html[n])
           /\ lastCall.fetch.html[n].text # <<>>
           /\ ~Includes(KeptTextFrom(1), lastCall.fetch.html[n].text) ) =>
           /\ ~Includes(lastCall.ret.value.title, lastCall.fetch.html[n].text)
           /\ ~Includes(lastCall.ret.value.content, lastCall.fetch.html[n].text)
    /\ lastCall.ret.value.metadata.hasImages = HasKept("img")
    /\ lastCall.ret.value.metadata.hasLinks = HasKept("a")

\* a page of a heading inside the header, an image inside the navigation and
\* a link inside the footer: no title, no content, no image and no link
C26_OnlyNoise ==
  /\ PageScraped
  /\ lastCall.fetch.html = NoisePage
  /\ lastCall.ret.value.title = Untitled
  /\ lastCall.ret.value.content = <<>>
  /\ ~lastCall.ret.value.metadata.hasImages
  /\ ~lastCall.ret.value.metadata.hasLinks

\* ------------------------------------------------------------------------
\* Properties of the metadata of a candidate
\* ------------------------------------------------------------------------

\* xs without the entries that occurred before
FirstOccurrences(xs) ==
  LET keep == SelectSeq([i \in 1..Len(xs) |-> i],
                        LAMBDA i : \A j \in 1..(i - 1) : xs[j] # xs[i])
  IN [k \in 1..Len(keep) |-> xs[keep[k]]]

\* the lower-cased words of the anchor text that have 3 characters or more
LongWords(text) ==
  SelectSeq(SplitWhitespace(toLowerCase(text)), LAMBDA word : Len(word) >= 3)

\* C27: the keywords of a candidate are the lower-cased libraryName, the
\* version and the lower-cased defaultCategory followed by the lower-cased
\* words of the anchor text that have 3 characters or more, with duplicates
\* removed: the first occurrence is kept, no entry occurs twice.
C27_KeywordsDeduplicatedInOrder ==
  \A k \in 1..Len(Adds) :
    /\ Adds[k].metadata.keywords =
         FirstOccurrences(<< toLowerCase(params.libraryName), params.version,
                             toLowerCase(params.defaultCategory) >>
                            \o LongWords(urlsToProcess[k].text))
    /\ \A i, j \in 1..Len(Adds[k].metadata.keywords) :
         i # j => Adds[k].metadata.keywords[i] # Adds[k].metadata.keywords[j]

\* libraryName "Now", defaultCategory "NOW" and the anchor text "Use Rx now":
\* the keywords are now, 1B, use
C27_RepeatedKeywordKeptOnce ==
  \E k \in 1..Len(Adds) :
    /\ urlsToProcess[k].text = <<"U", "s", "e", " ", "R", "x", " ", "n", "o", "w">>
    /\ params.libraryName = <<"N", "o", "w">>
    /\ Adds[k].metadata.keywords = << <<"n", "o", "w">>, Ver_1B, <<"u", "s", "e">> >>

\* ------------------------------------------------------------------------
\* extractSectionFromUrl on its own
\* ------------------------------------------------------------------------

MaxSegments == 3

\* the path segments the URLs are made of; the empty one stands between two
\* slashes
SectionSegments ==
  { Seg_docs, <<"D", "o", "c", "s">>, Seg_doc, Seg_intro, Seg_api, <<>> }

SectionUrls ==
  { [scheme |-> sch, host |-> "example.com", path |-> path, hash |-> FALSE]
      : sch \in {"https", ""}, path \in SeqsUpTo(SectionSegments, MaxSegments) }

\* extractSectionFromUrl(url)
CallExtractSectionFromUrl ==
  /\ lastCall.op = "none"
  /\ \E url \in SectionUrls :
       lastCall' = [ op |-> "extractSectionFromUrl", url |-> url, requests |-> <<>>,
                     ret |-> extractSectionFromUrl(url) ]
  /\ UNCHANGED << index, nextId >>
  /\ UNCHANGED bulkVars
  /\ UNCHANGED concurrentVars

NextSection == CallExtractSectionFromUrl

SpecSection == Init /\ [][NextSection]_vars

\* the segments of the path of the URL of the call, the empty ones left out
Segments == SelectSeq(lastCall.url.path, LAMBDA part : part # <<>>)

\* the positions of the segments that are docs or doc in any letter case
Markers ==
  { i \in 1..Len(Segments) :
      toLowerCase(Segments[i]) \in { <<"d", "o", "c", "s">>, <<"d", "o", "c">> } }

\* C28: the section of a candidate URL is the path segment that follows the
\* first segment equal to docs or doc (in any letter case) when there is
\* one after it, the last path segment otherwise, and 'general' when the
\* path is empty or the URL does not parse.
C28_SectionFromPath ==
  lastCall.op = "extractSectionFromUrl" =>
    IF lastCall.url.scheme = "" THEN lastCall.ret = <<"g", "e", "n", "e", "r", "a", "l">>
    ELSE IF \E i \in Markers : (\A j \in Markers : i <= j) /\ i < Len(Segments)
    THEN \E i \in Markers :
           /\ \A j \in Markers : i <= j
           /\ lastCall.ret = Segments[i + 1]
    ELSE IF Segments # <<>> THEN lastCall.ret = Segments[Len(Segments)]
    ELSE lastCall.ret = <<"g", "e", "n", "e", "r", "a", "l">>

\* /Docs/doc/intro: the section is doc, the segment after the first marker
C28_SegmentAfterFirstMarker ==
  /\ lastCall.op = "extractSectionFromUrl"
  /\ lastCall.url.scheme = "https"
  /\ lastCall.url.path = << <<"D", "o", "c", "s">>, Seg_doc, Seg_intro >>
  /\ lastCall.ret = Seg_doc

\* ------------------------------------------------------------------------
\* Properties of the records written to the index
\* ------------------------------------------------------------------------

\* the index writes of the last call
WritesOfLastCall == SelectSeq(lastCall.requests, LAMBDA q : q.kind = "add")

\* C29: every record written to the index carries a docType: addUrlDocument
\* writes 'url-document' and the legacy addDocument writes the legacy
\* docType whatever docType the metadata of the caller carries; no record of
\* the index is without docType.
C29_EveryRecordHasDocType ==
  /\ \A i \in 1..Len(index) :
       /\ "docType" \in DOMAIN index[i].metadata
       /\ index[i].metadata.docType \in {"url-document", "legacy-document"}
  /\ lastCall.op = "addUrlDocument" =>
       /\ Len(WritesOfLastCall) = 1
       /\ WritesOfLastCall[1].metadata.docType = "url-document"
       /\ lastCall.write.ok =>
            index[Len(index)].metadata.docType = "url-document"
  /\ lastCall.op = "createRagInformation" =>
       /\ Len(WritesOfLastCall) = 1
       /\ WritesOfLastCall[1].metadata.docType = "legacy-document"
       /\ lastCall.write.ok =>
            index[Len(index)].metadata.docType = "legacy-document"

\* a legacy document whose metadata came with docType 'url-document' is
\* stored with the legacy docType
C29_CallerDocTypeOverridden ==
  /\ lastCall.op = "createRagInformation"
  /\ "docType" \in DOMAIN lastCall.metadata
  /\ lastCall.metadata.docType = "url-document"
  /\ lastCall.write.ok
  /\ Len(index) = Len(lastCall.before) + 1
  /\ index[Len(index)].metadata.docType = "legacy-document"

\* C30: in every record addUrlDocument writes contentExtracted is the
\* extractContent argument of the call, also when scraping was asked for
\* and failed and the document stored is the one made of the metadata alone.
C30_ContentExtractedIsTheArgument ==
  lastCall.op = "addUrlDocument" =>
    /\ \A k \in 1..Len(WritesOfLastCall) :
         WritesOfLastCall[k].metadata.contentExtracted = lastCall.extractContent
    /\ lastCall.write.ok =>
         index[Len(index)].metadata.contentExtracted = lastCall.extractContent

\* scraping was asked for and failed: the record holds the metadata-only
\* document and contentExtracted is true
C30_ScrapeFailedFlagStillTrue ==
  /\ lastCall.op = "addUrlDocument"
  /\ lastCall.extractContent
  /\ ~lastCall.scrape.ok
  /\ lastCall.write.ok
  /\ index[Len(index)].metadata.contentExtracted
  /\ index[Len(index)].document =
       lastCall.metadata.title \o <<"\n">>
         \o (IF lastCall.metadata.description = UndefinedStr THEN <<>>
             ELSE lastCall.metadata.description)
         \o <<"\n">> \o Join(lastCall.metadata.keywords, <<" ">>)

====
